---- MODULE Spec2Model ----
(***************************************************************************)
(* BattlePoker: the Texas Hold'em game of Javacript/Poker.js.              *)
(* JavaScript arrays are modelled as sequences; JS index i is position     *)
(* i + 1.  The page elements the handlers read back (data-status,          *)
(* data-lastMove, the button captions, the disabled buttons) are state.    *)
(***************************************************************************)
EXTENDS Integers, Sequences, FiniteSets, TLC

VARIABLES
    usedCardsArr,            \* titles drawn in this hand, in draw order
    plyrPair,                \* plyr1Pair .. plyr4Pair
    playersHands,            \* hole cards per player
    bestHoleCards,
    resultList,
    compareCards,
    playerHighCards,
    playerStraightHighCard,
    activePlayers,
    topHand,
    communityCards,
    thePot,
    playerMoney,
    bet,
    gameIncrement,
    playedTimes,
    countingIterations,      \* the player evaluateHand was last called for
    status,                  \* dataset.status of players 1..3
    lastMove,                \* dataset.lastMove of players 1..3
    matchCaption,            \* amount shown on the match button
    raiseCaption,            \* amount shown on the raise button
    roundDisabled,           \* the betting and fold buttons cannot be used
    dealDisabled,            \* the Deal button cannot be used
    handlersRemoved,         \* disableGame replaced every button's handler
    activeButton,            \* the betting button carrying the class "active"
    stream,                  \* the outputs generate() still has to give in this hand
    random,                  \* the other outputs of Math.random() of this hand, in tenths
    session,                 \* per hand, what generate() and Math.random() will give
    log,                     \* youWin / youLose calls of this hand (history)
    atShowdown,              \* what the showdown of this hand started from (history)
    previous,                \* the showdown of the hand before (history)
    cfrPlayer,               \* the CFRPlayer object of CFR.js
    history                  \* what the last call on the CFRPlayer saw and returned (history)

gameVars == <<usedCardsArr, plyrPair, playersHands, bestHoleCards, resultList,
          compareCards, playerHighCards, playerStraightHighCard, activePlayers,
          topHand, communityCards, thePot, playerMoney, bet, gameIncrement,
          playedTimes, countingIterations, status, lastMove, matchCaption, raiseCaption,
          roundDisabled, dealDisabled, handlersRemoved, activeButton, stream, random,
          session, log, atShowdown, previous>>

vars == <<gameVars, cfrPlayer, history>>

-----------------------------------------------------------------------------
(* Bounds *)

MaxHands == 2

-----------------------------------------------------------------------------
(* Vocabularies *)

handHeirarchy == <<"high-card", "pair", "two-pairs", "three-of-a-kind", "straight",
                   "flush", "full-house", "four-of-a-kind", "straight-flush",
                   "royal-flush">>

cardHeirarchy == <<"two", "three", "four", "five", "six", "seven", "eight", "nine",
                   "ten", "jack", "queen", "king", "ace">>

suitArr == <<"diamonds", "hearts", "clubs", "spades">>

null == -1

\* money is counted in units of 1 / Dollar dollars, so that the halving of
\* youWin("split") stays exact over MaxHands hands
Dollar == 2 ^ (MaxHands + 1)

-----------------------------------------------------------------------------
(* JavaScript statements and array helpers *)

\* statement; statement: the first is carried out and the second works on x,
\* the state the first has left
Then(e, F(_)) == CHOOSE r \in {F(x) : x \in {e}} : TRUE

At(arr, i) == arr[i + 1]

Put(arr, i, v) == IF i = Len(arr) THEN Append(arr, v) ELSE [arr EXCEPT ![i + 1] = v]

indexOf(list, x) ==
    IF \E k \in 1..Len(list) : list[k] = x
    THEN (CHOOSE k \in 1..Len(list) : list[k] = x /\ \A j \in 1..(k - 1) : list[j] # x) - 1
    ELSE -1

lastIndexOf(list, x) ==
    IF \E k \in 1..Len(list) : list[k] = x
    THEN (CHOOSE k \in 1..Len(list) : list[k] = x /\ \A j \in (k + 1)..Len(list) : list[j] # x) - 1
    ELSE -1

getOccurrence(list, value) == Cardinality({k \in 1..Len(list) : list[k] = value})

MathMax(list) == CHOOSE m \in {list[k] : k \in 1..Len(list)} : \A k \in 1..Len(list) : list[k] <= m

RECURSIVE Filter(_, _)
Filter(list, x) ==
    IF list = <<>> THEN <<>>
    ELSE IF Head(list) = x THEN Filter(Tail(list), x)
    ELSE <<Head(list)>> \o Filter(Tail(list), x)

-----------------------------------------------------------------------------
(* Cards *)

\* a title is "value-suit"; the two substring calls cut it at the first "-"
Title(value, suit) == <<value, suit>>

\* a deck of the twos, threes and fours only
activeCardsTwelve ==
    [n \in 1..12 |-> [title |-> Title(cardHeirarchy[((n - 1) \div 4) + 1],
                                       suitArr[((n - 1) % 4) + 1])]]

\* the 52 entries of the cards array, each with its title; generate() gives an
\* index into it
activeCards ==
    [n \in 1..52 |-> [title |-> Title(cardHeirarchy[((n - 1) \div 4) + 1],
                                       suitArr[((n - 1) % 4) + 1])]]

CardOfTitle(title) == [suit |-> title[2], value |-> title[1]]

\* what communityCards[iteration] = <number> leaves in the array: a number has
\* neither a value nor a suit property
NumberEntry(n) == [suit |-> "undefined", value |-> "undefined", number |-> n]

-----------------------------------------------------------------------------
(* Outcome and fold handlers *)

youWin(g, type) ==
    LET pot == IF type = "split" THEN g.thePot \div 2 ELSE g.thePot
    IN  [g EXCEPT !.thePot = pot,
                  !.playerMoney = @ + pot,
                  !.dealDisabled = FALSE,
                  !.log = Append(@, [call |-> "youWin", type |-> type, who |-> 0,
                                     amount |-> pot, potBefore |-> g.thePot,
                                     step |-> g.gameIncrement,
                                     active |-> g.activePlayers])]

youLose(g, winner) ==
    [g EXCEPT !.dealDisabled = FALSE,
              !.log = Append(@, [call |-> "youLose", type |-> "default", who |-> winner,
                                 amount |-> 0, potBefore |-> g.thePot,
                                 step |-> g.gameIncrement,
                                 active |-> g.activePlayers])]

\* activePlayers == 0 compares an array with a number: the array is turned into
\* a string and then a number, so [] and [0] are the arrays equal to 0
LooseEqualsZero(arr) == arr = <<>> \/ arr = <<0>>

\* removeActivePlyr leaving resultList and compareCards as they are
removeActivePlyrUnmarked(g, plyrID) ==
    LET g1 == [g EXCEPT !.activePlayers = Filter(@, plyrID)]
    IN  IF LooseEqualsZero(g1.activePlayers) THEN youWin(g1, "default") ELSE g1

\* removeActivePlyr with activePlayers === 0, which no array satisfies
removeActivePlyrStrict(g, plyrID) ==
    [g EXCEPT !.compareCards[plyrID + 1] = -1,
              !.resultList[plyrID + 1] = -1,
              !.activePlayers = Filter(@, plyrID)]

removeActivePlyr(g, plyrID) ==
    LET g1 == [g EXCEPT !.compareCards[plyrID + 1] = -1,
                        !.resultList[plyrID + 1] = -1,
                        !.activePlayers = Filter(@, plyrID)]
    IN  IF LooseEqualsZero(g1.activePlayers) THEN youWin(g1, "default") ELSE g1

endGame(g) == [g EXCEPT !.roundDisabled = TRUE]

\* every element whose data-status is "checking" is folded, in document order
FoldOneChecking(g, p) ==
    IF g.status[p] = "checking"
    THEN [removeActivePlyr(g, p) EXCEPT !.status[p] = "folded"]
    ELSE g

FoldChecking(g) ==
    Then(FoldOneChecking(g, 1), LAMBDA g1 :
    Then(FoldOneChecking(g1, 2), LAMBDA g2 : FoldOneChecking(g2, 3)))

AnyBetting(g) == \E p \in 1..3 : g.status[p] = "betting"

-----------------------------------------------------------------------------
(* evaluateHand: the cards looked at and their tallies *)

cardsArr(g, iteration, gameStep) ==
    LET hole == At(g.playersHands, iteration)
        n == IF gameStep = 2 THEN 3 ELSE IF gameStep = 3 THEN 4
             ELSE IF gameStep = 4 THEN 5 ELSE 0
    IN  hole \o [k \in 1..n |-> g.communityCards[k]]

\* cardIndexes before sorting: indexOf never gives null, so every entry is
\* pushed, and an ace is pushed once more as -1
RECURSIVE cardIndexesOf(_)
cardIndexesOf(cards) ==
    IF cards = <<>> THEN <<>>
    ELSE LET c == Head(cards)
         IN  <<indexOf(cardHeirarchy, c.value)>>
             \o (IF c.value = "ace" THEN <<-1>> ELSE <<>>)
             \o cardIndexesOf(Tail(cards))

valueArrOf(cards) ==
    [r \in 1..13 |-> Cardinality({k \in 1..Len(cards) : cards[k].value = cardHeirarchy[r]})]

\* [spades, hearts, diamonds, clubs]
suitedArrOf(cards) ==
    LET n(s) == Cardinality({k \in 1..Len(cards) : cards[k].suit = s})
    IN  <<n("spades"), n("hearts"), n("diamonds"), n("clubs")>>

\* valueArr[i] > 0 where an index outside the array reads undefined
Present(valueArr, i) == i >= 0 /\ i < Len(valueArr) /\ At(valueArr, i) > 0

-----------------------------------------------------------------------------
(* evaluateHand: matching values *)

\* what evaluateHand(iteration, ..) reads and writes of player `iteration` while
\* it works out the category: the player's entries of resultList, compareCards,
\* playerHighCards, plyrNPair and playerStraightHighCard, and the value it
\* stores in communityCards[iteration] (<<>> when it stores none)
Own(g, iteration) ==
    [rl |-> g.resultList[iteration + 1],
     cc |-> g.compareCards[iteration + 1],
     phc |-> g.playerHighCards[iteration + 1],
     pairs |-> g.plyrPair[iteration + 1],
     psh |-> g.playerStraightHighCard[iteration + 1],
     written |-> <<>>]

RankStep(p, valueArr, gameStep, i) ==
    LET n == At(valueArr, i)
        p1 == IF n > 0
              THEN [p EXCEPT !.phc = IF gameStep = 1 THEN i ELSE @,
                             !.cc = IF p.rl = 0 THEN i ELSE @]
              ELSE p
        p2 == IF n = 2
              THEN [p1 EXCEPT !.pairs = Append(@, i),
                              !.rl = IF p1.rl < 1 THEN 1 ELSE @,
                              !.cc = IF p1.rl < 1 THEN lastIndexOf(valueArr, 2) ELSE @]
              ELSE p1
        p3 == IF n = 3 /\ p2.rl < 3
              THEN [p2 EXCEPT !.rl = 3, !.cc = lastIndexOf(valueArr, 3)]
              ELSE p2
    IN  IF n = 4 /\ p3.rl < 7
        THEN [p3 EXCEPT !.rl = 7, !.cc = lastIndexOf(valueArr, 4)]
        ELSE p3

RECURSIVE RankLoop(_, _, _, _)
RankLoop(p, valueArr, gameStep, i) ==
    IF i >= Len(valueArr) THEN p
    ELSE RankLoop(RankStep(p, valueArr, gameStep, i), valueArr, gameStep, i + 1)

TwoPairCheck(p, valueArr) ==
    IF getOccurrence(valueArr, 2) > 1 /\ p.rl < 2
    THEN [p EXCEPT !.rl = 2, !.cc = lastIndexOf(valueArr, 2)]
    ELSE p

-----------------------------------------------------------------------------
(* evaluateHand: looking for a straight *)

\* cardIndexes[i + j] === cardIndexes[i] + j for j = 1 .. k
Connected(cardIndexes, i, k) ==
    \A j \in 1..k : i + j < Len(cardIndexes)
                    /\ At(cardIndexes, i + j) = At(cardIndexes, i) + j

connectedTwoOf(cardIndexes) ==
    \E i \in 0..(Len(cardIndexes) - 1) : Connected(cardIndexes, i, 1)

connectedThreeOf(cardIndexes) ==
    \E i \in 0..(Len(cardIndexes) - 1) : Connected(cardIndexes, i, 2)

connectedFourOf(cardIndexes) ==
    \E i \in 0..(Len(cardIndexes) - 1) : Connected(cardIndexes, i, 3)

StraightStep(p, cardIndexes, i) ==
    IF Connected(cardIndexes, i, 4)
    THEN LET top == At(cardIndexes, i + 4)
         IN  [p EXCEPT !.psh = IF top > @ THEN top ELSE @,
                       !.rl = IF p.rl < 4 THEN 4 ELSE @,
                       !.written = IF p.rl < 4 THEN <<NumberEntry(top)>> ELSE @]
    ELSE p

RECURSIVE StraightLoop(_, _, _)
StraightLoop(p, cardIndexes, i) ==
    IF i >= Len(cardIndexes) THEN p
    ELSE StraightLoop(StraightStep(p, cardIndexes, i), cardIndexes, i + 1)

\* the second pass over valueArr; i = -1 and i > 8 read undefined entries
RunStarts(valueArr) ==
    {i \in -1..12 : \A j \in 0..4 : Present(valueArr, i + j)}

\* every run found stores again; what the last one stores stays
StraightFix(p, valueArr) ==
    IF RunStarts(valueArr) = {} THEN p
    ELSE LET last == CHOOSE i \in RunStarts(valueArr) :
                         \A j \in RunStarts(valueArr) : j <= i
         IN  [p EXCEPT !.rl = 4,
                       !.written = <<NumberEntry(At(valueArr, last + 4))>>]

straightOf(cardIndexes, valueArr) ==
    \/ \E i \in 0..(Len(cardIndexes) - 1) : Connected(cardIndexes, i, 4)
    \/ RunStarts(valueArr) # {}

-----------------------------------------------------------------------------
(* evaluateHand: the category of the player, lines 264 to 472 *)

SortedIndexes(cards) == SortSeq(cardIndexesOf(cards), LAMBDA a, b : a < b)

\* the ladder with a flush seen from four cards of a suit on
LadderFourSuited(p, valueArr, suitedArr, straight) ==
    LET flush == \E k \in 1..Len(suitedArr) : suitedArr[k] >= 4
        p1 == IF p.rl < 4 /\ straight THEN [p EXCEPT !.rl = 4] ELSE p
        p2 == IF flush /\ p1.rl < 5 THEN [p1 EXCEPT !.rl = 5] ELSE p1
        p3 == IF indexOf(valueArr, 3) # -1 /\ indexOf(valueArr, 2) # -1 /\ p2.rl < 6
              THEN [p2 EXCEPT !.rl = 6,
                              !.written = <<NumberEntry(lastIndexOf(valueArr, 3))>>]
              ELSE p2
        p4 == IF flush /\ straight /\ p3.rl < 8 THEN [p3 EXCEPT !.rl = 8] ELSE p3
    IN  IF (\A r \in 8..12 : At(valueArr, r) > 0) /\ flush /\ p4.rl < 9
        THEN [p4 EXCEPT !.rl = 9] ELSE p4

\* lines 434 to 460: straight, flush, full house, straight flush, royal flush
Ladder(p, valueArr, suitedArr, straight) ==
    LET flush == indexOf(suitedArr, 5) # -1
        p1 == IF p.rl < 4 /\ straight THEN [p EXCEPT !.rl = 4] ELSE p
        p2 == IF flush /\ p1.rl < 5 THEN [p1 EXCEPT !.rl = 5] ELSE p1
        p3 == IF indexOf(valueArr, 3) # -1 /\ indexOf(valueArr, 2) # -1 /\ p2.rl < 6
              THEN [p2 EXCEPT !.rl = 6,
                              !.written = <<NumberEntry(lastIndexOf(valueArr, 3))>>]
              ELSE p2
        p4 == IF flush /\ straight /\ p3.rl < 8 THEN [p3 EXCEPT !.rl = 8] ELSE p3
    IN  IF (\A r \in 8..12 : At(valueArr, r) > 0) /\ flush /\ p4.rl < 9
        THEN [p4 EXCEPT !.rl = 9] ELSE p4

\* lines 356 to 460 for the cards of one player
Tally(p, cards, gameStep) ==
    LET valueArr == valueArrOf(cards)
        cardIndexes == SortedIndexes(cards)
    IN  Ladder(StraightFix(StraightLoop(TwoPairCheck(RankLoop(p, valueArr, gameStep, 0),
                                                     valueArr),
                                        cardIndexes, 0),
                           valueArr),
               valueArr, suitedArrOf(cards), straightOf(cardIndexes, valueArr))

Categorise(g, iteration, gameStep) ==
    LET it == iteration + 1
        cards == cardsArr(g, iteration, gameStep)
        p == Tally(Own(g, iteration), cards, gameStep)
        inactive == {q \in 1..4 : indexOf(g.activePlayers, q - 1) = -1}
        rl == [q \in 1..4 |-> IF q \in inactive THEN -1
                              ELSE IF q = it THEN p.rl ELSE g.resultList[q]]
        cc == [q \in 1..4 |-> IF q \in inactive THEN -1
                              ELSE IF q = it THEN p.cc ELSE g.compareCards[q]]
    IN  [g EXCEPT !.resultList = rl,
                  !.compareCards =
                      IF rl[it] = 0
                      THEN [cc EXCEPT ![it] = lastIndexOf(valueArrOf(cards), 1)] ELSE cc,
                  !.playerHighCards[it] = p.phc,
                  !.plyrPair[it] = p.pairs,
                  !.playerStraightHighCard[it] = p.psh,
                  !.communityCards =
                      IF p.written = <<>> THEN @ ELSE Put(@, iteration, p.written[1])]

\* the player's two hole ranks, lower first (only called with the two hole cards)
bestHoleOf(valueArr) ==
    LET RECURSIVE build(_)
        build(i) == IF i >= Len(valueArr) THEN <<>>
                    ELSE (IF At(valueArr, i) # 0
                          THEN <<i>> \o (IF At(valueArr, i) > 1 THEN <<i>> ELSE <<>>)
                          ELSE <<>>) \o build(i + 1)
        tempObj == build(0)
    IN  IF Len(tempObj) >= 2 /\ tempObj[2] < tempObj[1]
        THEN [tempObj EXCEPT ![1] = tempObj[2], ![2] = tempObj[1]]
        ELSE tempObj

-----------------------------------------------------------------------------
(* evaluateHand: the showdown, lines 511 to 641 *)

\* If the 2 winning players have two pair, who has the best 2 pair?
TwoPairCut(g) ==
    LET allPairs == g.plyrPair[1] \o g.plyrPair[2] \o g.plyrPair[3] \o g.plyrPair[4]
        highestPair == MathMax(allPairs)
        out1 == {i \in 1..4 : indexOf(g.plyrPair[i], highestPair) = -1}
        with1 == [i \in 1..4 |-> IF i \in out1 THEN <<>> ELSE g.plyrPair[i]]
        rest == [k \in 1..Len(allPairs) |->
                    IF allPairs[k] = highestPair THEN -1 ELSE allPairs[k]]
        secondHighestPair == MathMax(rest)
        out2 == {i \in 1..4 : indexOf(with1[i], secondHighestPair) = -1}
    IN  [g EXCEPT !.compareCards = [i \in 1..4 |-> IF i \in out1 \cup out2 THEN -1 ELSE @[i]],
                  !.resultList = [i \in 1..4 |-> IF i \in out1 \cup out2 THEN -1 ELSE @[i]]]

winnersListOf(g) ==
    [i \in 1..4 |->
        IF g.compareCards[i] # -1
        THEN MathMax(<<indexOf(cardHeirarchy, g.playersHands[i][1].value),
                       indexOf(cardHeirarchy, g.playersHands[i][2].value)>>)
        ELSE -1]

\* one pass of the loop over bestHoleCards; st.split says youWin("split") was
\* called, which ends evaluateHand
HoleStep(st, multiWinMax, i) ==
    LET g0 == st.g
        g1 == IF indexOf(At(g0.bestHoleCards, i), multiWinMax) = -1
              THEN [g0 EXCEPT !.bestHoleCards[i + 1] = <<-1, -1>>] ELSE g0
        hole == At(g1.bestHoleCards, i)
        s1 == IF hole[2] > st.hiHole
              THEN [st EXCEPT !.g = [g1 EXCEPT !.topHand = i], !.hiHole = hole[2]]
              ELSE [st EXCEPT !.g = g1]
        s2 == IF hole[2] = s1.hiHole /\ hole[1] > s1.lowHole
              THEN [s1 EXCEPT !.g = [s1.g EXCEPT !.topHand = i], !.lowHole = hole[1]]
              ELSE s1
    IN  IF hole[2] = s2.hiHole /\ hole[1] = s2.lowHole
           /\ At(s2.g.bestHoleCards, 0)[1] # -1
        THEN [s2 EXCEPT !.g = youWin(s2.g, "split"), !.split = TRUE]
        ELSE s2

RECURSIVE HoleLoop(_, _, _)
HoleLoop(st, multiWinMax, i) ==
    IF st.split \/ i >= Len(st.g.bestHoleCards) THEN st
    ELSE HoleLoop(HoleStep(st, multiWinMax, i), multiWinMax, i + 1)

\* the players still tied on compareCards: highest hole card, then both
HoleCardCut(g) ==
    LET winnersList == winnersListOf(g)
        multiWinMax == MathMax(winnersList)
        g1 == [g EXCEPT !.topHand = indexOf(winnersList, multiWinMax)]
    IN  IF getOccurrence(winnersList, multiWinMax) > 1
        THEN LET st == HoleLoop([g |-> g1, hiHole |-> 0, lowHole |-> 0, split |-> FALSE],
                                multiWinMax, 0)
             IN  [g |-> st.g, returned |-> st.split]
        ELSE [g |-> g1, returned |-> FALSE]

TieBreak(g, winningHand) ==
    LET g1 == [g EXCEPT
                 !.compareCards = [i \in 1..4 |->
                     IF g.resultList[i] # winningHand THEN -1 ELSE @[i]],
                 !.bestHoleCards = [i \in 1..Len(g.bestHoleCards) |->
                     IF g.resultList[i] # winningHand THEN <<-1, -1>> ELSE @[i]]]
        winningCard == MathMax(g1.compareCards)
        g2 == [g1 EXCEPT !.topHand = indexOf(g1.compareCards, winningCard)]
    IN  IF getOccurrence(g2.compareCards, winningCard) > 1
        THEN LET top == MathMax(g2.playerStraightHighCard)
                 g3 == IF winningHand = 4 THEN [g2 EXCEPT !.topHand = top] ELSE g2
             IN  IF winningHand = 4
                    /\ getOccurrence(g2.playerStraightHighCard, top) > 1
                    /\ g2.playerStraightHighCard[1] = top
                 THEN [g |-> youWin(g3, "split"), returned |-> TRUE]
                 ELSE HoleCardCut(IF winningHand = 2 THEN TwoPairCut(g3) ELSE g3)
        ELSE [g |-> g2, returned |-> FALSE]

\* the cards a hand was played with: who was active at the showdown, their
\* hole cards and the community cards as drawn
Played(g) ==
    [active |-> g.activePlayers,
     hands |-> [k \in 1..Len(g.activePlayers) |-> At(g.playersHands, g.activePlayers[k])],
     board |-> SubSeq(g.usedCardsArr, 9, Len(g.usedCardsArr))]

\* the showdown that hands the pot to the first active player
ShowdownFirstActive(g) ==
    [g |-> [g EXCEPT !.atShowdown = <<[resultList |-> g.resultList,
                                       countingIterations |-> g.countingIterations,
                                       thePot |-> g.thePot,
                                       playerMoney |-> g.playerMoney,
                                       played |-> Played(g)]>>,
                     !.topHand = At(g.activePlayers, 0)],
     returned |-> FALSE]

Showdown(g) ==
    LET winningHand == MathMax(g.resultList)
        h == [g EXCEPT !.atShowdown = <<[resultList |-> g.resultList,
                                         countingIterations |-> g.countingIterations,
                                         thePot |-> g.thePot,
                                         playerMoney |-> g.playerMoney,
                                         played |-> Played(g)]>>]
    IN  IF getOccurrence(h.resultList, winningHand) = 1
        THEN [g |-> [h EXCEPT !.topHand = indexOf(h.resultList, winningHand)],
              returned |-> FALSE]
        ELSE TieBreak(h, winningHand)

-----------------------------------------------------------------------------
(* evaluateHand: what the opponent shows, lines 642 to 785 *)

highCardCountOf(valueArr) == Cardinality({i \in 8..12 : At(valueArr, i) > 0})

SuitedOver(suitedArr, n) == \E k \in 1..Len(suitedArr) : suitedArr[k] > n

\* the status an opponent is given at this step; maxBetHit is false in every
\* hand (deal clears it and nothing sets it)
OpponentBets(g, iteration, gameStep, cards) ==
    LET valueArr == valueArrOf(cards)
        cardIndexes == SortedIndexes(cards)
        suitedArr == suitedArrOf(cards)
        made == g.resultList[iteration + 1] >= 1
    IN  IF gameStep = 1
        THEN made \/ connectedTwoOf(cardIndexes) \/ highCardCountOf(valueArr) > 0
             \/ SuitedOver(suitedArr, 1) \/ At(valueArr, 12) > 0
        ELSE IF gameStep = 2
        THEN connectedThreeOf(cardIndexes) \/ highCardCountOf(valueArr) > 1
             \/ SuitedOver(suitedArr, 1) \/ made
        ELSE connectedThreeOf(cardIndexes) \/ SuitedOver(suitedArr, 2)
             \/ SuitedOver(suitedArr, 3) \/ made

Announce(g, iteration, gameStep, cards) ==
    IF iteration # 0 /\ gameStep \in 1..3
    THEN [g EXCEPT !.status[iteration] =
             IF OpponentBets(g, iteration, gameStep, cards) THEN "betting" ELSE "checking"]
    ELSE g

\* the end of a round that declares nothing at the river when another player
\* holds the top hand
RoundEndWithoutLoss(g, iteration, gameStep, lastIteration) ==
    IF gameStep \in 1..3 /\ iteration = lastIteration /\ iteration # 0
    THEN IF AnyBetting(g) THEN FoldChecking(g) ELSE g
    ELSE IF gameStep = 4 /\ iteration = lastIteration
    THEN IF g.topHand = 0 THEN youWin(g, "default") ELSE g
    ELSE g

\* the end of a round that declares the outcome from the turn on
RoundEndFromTurn(g, iteration, gameStep, lastIteration) ==
    IF gameStep \in 1..2 /\ iteration = lastIteration /\ iteration # 0
    THEN IF AnyBetting(g) THEN FoldChecking(g) ELSE g
    ELSE IF gameStep >= 3 /\ iteration = lastIteration
    THEN IF g.topHand = 0 THEN youWin(g, "default") ELSE youLose(g, g.topHand)
    ELSE g

RoundEnd(g, iteration, gameStep, lastIteration) ==
    IF gameStep \in 1..3 /\ iteration = lastIteration /\ iteration # 0
    THEN IF AnyBetting(g) THEN FoldChecking(g) ELSE g
    ELSE IF gameStep = 4 /\ iteration = lastIteration
    THEN IF g.topHand = 0 THEN youWin(g, "default") ELSE youLose(g, g.topHand)
    ELSE g

evaluateHand(g, iteration, gameStep) ==
    LET lastIteration == g.activePlayers[Len(g.activePlayers)]
        cards == cardsArr(g, iteration, gameStep)
    IN  Then(Categorise([g EXCEPT !.countingIterations = iteration], iteration, gameStep),
             LAMBDA g1 :
        Then(IF gameStep = 1
             THEN [g1 EXCEPT !.bestHoleCards = Append(@, bestHoleOf(valueArrOf(cards)))]
             ELSE g1, LAMBDA g2 :
        Then(IF gameStep = 4 /\ iteration = lastIteration
             THEN Showdown(g2) ELSE [g |-> g2, returned |-> FALSE], LAMBDA sd :
        IF sd.returned THEN sd.g
        ELSE IF indexOf(sd.g.activePlayers, iteration) # -1
        THEN Then(Announce(sd.g, iteration, gameStep, cards), LAMBDA g3 :
                  RoundEnd(g3, iteration, gameStep, lastIteration))
        ELSE sd.g)))

-----------------------------------------------------------------------------
(* Drawing cards *)

\* buildCommunityCards: generate() until howMany entries are there; a title in
\* usedCardsArr is drawn again
RECURSIVE buildCommunityCards(_, _)
buildCommunityCards(g, howMany) ==
    IF Len(g.communityCards) >= howMany \/ g.stream = <<>> THEN g
    ELSE LET genNumber == Head(g.stream)
             title == At(activeCards, genNumber).title
             g1 == [g EXCEPT !.stream = Tail(@)]
         IN  IF indexOf(g1.usedCardsArr, title) = -1
             THEN buildCommunityCards(
                      [g1 EXCEPT !.communityCards = Append(@, CardOfTitle(title)),
                                 !.usedCardsArr = Append(@, title)], howMany)
             ELSE buildCommunityCards(g1, howMany)

RECURSIVE DrawHole(_, _)
DrawHole(g, playersCards) ==
    IF Len(playersCards) >= 2 \/ g.stream = <<>> THEN [g |-> g, playersCards |-> playersCards]
    ELSE LET genNumber == Head(g.stream)
             title == At(activeCards, genNumber).title
             g1 == [g EXCEPT !.stream = Tail(@)]
         IN  IF indexOf(g1.usedCardsArr, title) = -1
             THEN DrawHole([g1 EXCEPT !.usedCardsArr = Append(@, title)],
                           Append(playersCards, title))
             ELSE DrawHole(g1, playersCards)

generatePlayer(g, iteration) ==
    Then(DrawHole(g, <<>>), LAMBDA d :
    Then([d.g EXCEPT !.playersHands[iteration + 1] =
                         [k \in 1..Len(d.playersCards) |-> CardOfTitle(d.playersCards[k])]],
         LAMBDA g1 : evaluateHand(g1, iteration, 1)))

-----------------------------------------------------------------------------
(* calculateHandStrength of Poker.js *)

calculateHandStrength(hand) ==
    LET values == SortSeq([k \in 1..Len(hand) |-> indexOf(cardHeirarchy, hand[k].value)],
                          LAMBDA a, b : a < b)
        counts == {Cardinality({k \in 1..Len(values) : values[k] = v}) :
                       v \in {values[k] : k \in 1..Len(values)}}
        pairs == Cardinality({v \in {values[k] : k \in 1..Len(values)} :
                       Cardinality({k \in 1..Len(values) : values[k] = v}) = 2})
        maxCount == CHOOSE m \in counts : \A c \in counts : c <= m
        isStraight == \A k \in 2..Len(values) : values[k] = values[k - 1] + 1
        isFlush == \A k \in 1..Len(hand) : hand[k].suit = hand[1].suit
    IN  IF isStraight /\ isFlush THEN 8
        ELSE IF maxCount = 4 THEN 7
        ELSE IF maxCount = 3 /\ 2 \in counts THEN 6
        ELSE IF isFlush THEN 5
        ELSE IF isStraight THEN 4
        ELSE IF maxCount = 3 THEN 3
        ELSE IF pairs = 2 THEN 2
        ELSE IF maxCount = 2 THEN 1
        ELSE 0

-----------------------------------------------------------------------------
(* deal *)


resetPlayerMoney(g, confirmation) ==
    IF g.playerMoney <= 0
    THEN IF confirmation THEN [g EXCEPT !.playerMoney = 500 * Dollar]
         ELSE [g EXCEPT !.handlersRemoved = TRUE]
    ELSE g

\* opponent i of the initial betting simulation
DealDecision(g, i, betDecision) ==
    LET score == calculateHandStrength(At(g.playersHands, i))
    IN  IF score >= 8 \/ betDecision > 8
        THEN [g EXCEPT !.status[i] = "betting", !.lastMove[i] = "bet"]
        ELSE IF score >= 4 \/ betDecision > 5
        THEN [g EXCEPT !.status[i] = "checking", !.lastMove[i] = "check"]
        ELSE removeActivePlyr([g EXCEPT !.status[i] = "folded", !.lastMove[i] = "fold"], i)

DealBet(g, i, betDecision, bet2) ==
    IF calculateHandStrength(At(g.playersHands, i)) >= 8 \/ betDecision > 8
    THEN bet2
    ELSE IF calculateHandStrength(At(g.playersHands, i)) >= 4 \/ betDecision > 5
    THEN 10 * Dollar ELSE 0

\* Math.ceil(maxPlayerBet * 1.25), in whole dollars
RaiseTo(maxPlayerBet) ==
    LET dollars == maxPlayerBet \div Dollar
    IN  ((5 * dollars + 3) \div 4) * Dollar

\* Math.floor(Math.random() * (maxBet[1] - maxBet[0] + 1) + maxBet[0])
Bet2(playedTimesBefore, r) ==
    LET baseBet == 50
        betIncrement == playedTimesBefore * 10
        maxBet == <<baseBet + betIncrement, baseBet * 2 + betIncrement,
                    baseBet * 3 + betIncrement>>
    IN  (((r * (maxBet[2] - maxBet[1] + 1)) \div 10) + maxBet[1]) * Dollar

\* deal() without bestHoleCards = []
dealKeepingHoleCards(g, confirmation, source) ==
    LET g0 == resetPlayerMoney(g, confirmation)
        bet2 == Bet2(g.playedTimes, source.random[1])
        decision == SubSeq(source.random, 2, 4)
        g1 == [g0 EXCEPT
                 !.plyrPair = <<<<>>, <<>>, <<>>, <<>>>>,
                 !.usedCardsArr = <<>>,
                 !.playedTimes = @ + 1,
                 !.gameIncrement = 1,
                 !.communityCards = <<>>,
                 !.resultList = <<0, 0, 0, 0>>,
                 !.compareCards = <<0, 0, 0, 0>>,
                 !.activePlayers = <<0, 1, 2, 3>>,
                 !.playerHighCards = <<0, 0, 0, 0>>,
                 !.playerStraightHighCard = <<0, 0, 0, 0>>,
                 !.topHand = null,
                 !.countingIterations = 0,
                 !.status = <<"ready", "ready", "ready">>,
                 !.thePot = 40 * Dollar,
                 !.bet = 10 * Dollar,
                 !.playerMoney = @ - 10 * Dollar,
                 !.roundDisabled = FALSE,
                 !.dealDisabled = TRUE,
                 !.stream = source.cards,
                 !.random = SubSeq(source.random, 5, Len(source.random)),
                 !.previous = IF g.atShowdown # <<>>
                              THEN <<[played |-> g.atShowdown[1].played,
                                      topHand |-> g.topHand, log |-> g.log]>>
                              ELSE @,
                 !.atShowdown = <<>>,
                 !.log = <<>>]
    IN  Then(g1, LAMBDA h0 :
        Then(generatePlayer(h0, 0), LAMBDA h1 :
        Then(generatePlayer(h1, 1), LAMBDA h2 :
        Then(generatePlayer(h2, 2), LAMBDA h3 :
        Then(generatePlayer(h3, 3), LAMBDA g2 :
        Then(DealDecision(g2, 1, decision[1]), LAMBDA d1 :
        Then(DealDecision(d1, 2, decision[2]), LAMBDA d2 :
        Then(DealDecision(d2, 3, decision[3]), LAMBDA g3 :
        Then(MathMax(<<10 * Dollar, DealBet(g2, 1, decision[1], bet2),
                       DealBet(g2, 2, decision[2], bet2),
                       DealBet(g2, 3, decision[3], bet2)>>), LAMBDA maxPlayerBet :
        Then([g3 EXCEPT !.matchCaption = maxPlayerBet,
                        !.raiseCaption = RaiseTo(maxPlayerBet)], LAMBDA g4 :
        IF Len(g4.activePlayers) = 1 THEN endGame(g4) ELSE g4))))))))))

\* source: what generate() gives in this hand (cards) and what the other calls
\* of Math.random() give (random): bet2 first, then the three betDecisions
deal(g, confirmation, source) ==
    LET g0 == resetPlayerMoney(g, confirmation)
        bet2 == Bet2(g.playedTimes, source.random[1])
        decision == SubSeq(source.random, 2, 4)
        g1 == [g0 EXCEPT
                 !.plyrPair = <<<<>>, <<>>, <<>>, <<>>>>,
                 !.usedCardsArr = <<>>,
                 !.playedTimes = @ + 1,
                 !.gameIncrement = 1,
                 !.communityCards = <<>>,
                 !.resultList = <<0, 0, 0, 0>>,
                 !.compareCards = <<0, 0, 0, 0>>,
                 !.activePlayers = <<0, 1, 2, 3>>,
                 !.playerHighCards = <<0, 0, 0, 0>>,
                 !.playerStraightHighCard = <<0, 0, 0, 0>>,
                 !.bestHoleCards = <<>>,
                 !.topHand = null,
                 !.countingIterations = 0,
                 !.status = <<"ready", "ready", "ready">>,
                 !.thePot = 40 * Dollar,
                 !.bet = 10 * Dollar,
                 !.playerMoney = @ - 10 * Dollar,
                 !.roundDisabled = FALSE,
                 !.dealDisabled = TRUE,
                 !.stream = source.cards,
                 !.random = SubSeq(source.random, 5, Len(source.random)),
                 !.previous = IF g.atShowdown # <<>>
                              THEN <<[played |-> g.atShowdown[1].played,
                                      topHand |-> g.topHand, log |-> g.log]>>
                              ELSE @,
                 !.atShowdown = <<>>,
                 !.log = <<>>]
    IN  Then(g1, LAMBDA h0 :
        Then(generatePlayer(h0, 0), LAMBDA h1 :
        Then(generatePlayer(h1, 1), LAMBDA h2 :
        Then(generatePlayer(h2, 2), LAMBDA h3 :
        Then(generatePlayer(h3, 3), LAMBDA g2 :
        Then(DealDecision(g2, 1, decision[1]), LAMBDA d1 :
        Then(DealDecision(d1, 2, decision[2]), LAMBDA d2 :
        Then(DealDecision(d2, 3, decision[3]), LAMBDA g3 :
        Then(MathMax(<<10 * Dollar, DealBet(g2, 1, decision[1], bet2),
                       DealBet(g2, 2, decision[2], bet2),
                       DealBet(g2, 3, decision[3], bet2)>>), LAMBDA maxPlayerBet :
        Then([g3 EXCEPT !.matchCaption = maxPlayerBet,
                        !.raiseCaption = RaiseTo(maxPlayerBet)], LAMBDA g4 :
        IF Len(g4.activePlayers) = 1 THEN endGame(g4) ELSE g4))))))))))

-----------------------------------------------------------------------------
(* match *)

FoldByCheck(g, snapshot) ==
    LET step(h, player) ==
            IF indexOf(snapshot, player) # -1 /\ player # 0 /\ h.lastMove[player] = "check"
            THEN removeActivePlyr([h EXCEPT !.status[player] = "folded"], player)
            ELSE h
    IN  Then(step(g, 1), LAMBDA g1 : Then(step(g1, 2), LAMBDA g2 : step(g2, 3)))

anyPlayerRaisedOf(g) ==
    \E k \in 1..Len(g.activePlayers) :
        g.activePlayers[k] # 0 /\ g.lastMove[g.activePlayers[k]] = "bet"

RECURSIVE EvaluateActive(_, _, _, _)
EvaluateActive(g, gameStep, i, evaled) ==
    IF i >= Len(g.activePlayers) THEN g
    ELSE LET player == At(g.activePlayers, i)
         IN  IF player \notin evaled
             THEN Then(evaluateHand(g, player, gameStep), LAMBDA h :
                       EvaluateActive(h, gameStep, i + 1, evaled \cup {player}))
             ELSE EvaluateActive(g, gameStep, i + 1, evaled)

\* players 2, 3 and 4 answer; at the river only the status is written
OpponentMove(g, i, gameStep) ==
    IF indexOf(g.activePlayers, i) = -1 THEN g
    ELSE IF gameStep >= 4 THEN [g EXCEPT !.status[i] = "finished"]
    ELSE LET playerHandStrength == calculateHandStrength(At(g.playersHands, i))
             playerDecisionFactor == Head(g.random)
             h == [g EXCEPT !.random = Tail(@)]
         IN  IF playerHandStrength >= 8
                \/ (playerHandStrength >= 5 /\ playerDecisionFactor > 7)
             THEN [h EXCEPT !.status[i] = "betting", !.lastMove[i] = "bet",
                            !.thePot = @ + g.matchCaption]
             ELSE IF playerHandStrength >= 4
                     \/ (playerHandStrength >= 2 /\ playerDecisionFactor > 4)
             THEN [h EXCEPT !.status[i] = "checking", !.lastMove[i] = "check"]
             ELSE removeActivePlyr([h EXCEPT !.status[i] = "folded",
                                             !.lastMove[i] = "fold"], i)

\* the button carrying the class "active" decides player 0's bet; no handler
\* changes the class of a betting button
Buttons == {"none", "match", "raise", "max"}

HeroBet(g) ==
    IF g.activeButton = "match" THEN g.matchCaption
    ELSE IF g.activeButton = "raise" THEN g.raiseCaption
    ELSE IF g.activeButton = "max" THEN g.playerMoney
    ELSE 10 * Dollar

match(g) ==
    LET gameStep == g.gameIncrement + 1
        maxLength == IF gameStep < 4 THEN gameStep + 1 ELSE 5
    IN  Then([g EXCEPT !.gameIncrement = gameStep], LAMBDA g1 :
        Then(IF anyPlayerRaisedOf(g1) THEN FoldByCheck(g1, g1.activePlayers) ELSE g1,
             LAMBDA g2 :
        Then(IF gameStep = 2
             THEN buildCommunityCards([g2 EXCEPT !.communityCards = <<>>], 3)
             ELSE buildCommunityCards(g2, maxLength), LAMBDA g3 :
        Then(EvaluateActive(g3, gameStep, 0, {}), LAMBDA g4 :
        Then(OpponentMove(g4, 1, gameStep), LAMBDA m1 :
        Then(OpponentMove(m1, 2, gameStep), LAMBDA m2 :
        Then(OpponentMove(m2, 3, gameStep), LAMBDA g5 :
        Then([g5 EXCEPT !.bet = @ + HeroBet(g5),
                        !.playerMoney = @ - HeroBet(g5),
                        !.thePot = @ + HeroBet(g5)], LAMBDA g6 :
        IF gameStep >= 4 \/ Len(g6.activePlayers) = 1 THEN endGame(g6) ELSE g6))))))))

-----------------------------------------------------------------------------
(* fold *)

fold(g) ==
    [buildCommunityCards(g, 5) EXCEPT !.roundDisabled = TRUE, !.dealDisabled = FALSE]

-----------------------------------------------------------------------------
(* The state as one record, and the specification *)

G == [usedCardsArr |-> usedCardsArr, plyrPair |-> plyrPair, playersHands |-> playersHands,
      bestHoleCards |-> bestHoleCards, resultList |-> resultList,
      compareCards |-> compareCards, playerHighCards |-> playerHighCards,
      playerStraightHighCard |-> playerStraightHighCard,
      activePlayers |-> activePlayers, topHand |-> topHand,
      communityCards |-> communityCards, thePot |-> thePot, playerMoney |-> playerMoney,
      bet |-> bet, gameIncrement |-> gameIncrement, playedTimes |-> playedTimes,
      countingIterations |-> countingIterations,
      status |-> status, lastMove |-> lastMove, matchCaption |-> matchCaption,
      raiseCaption |-> raiseCaption, roundDisabled |-> roundDisabled,
      dealDisabled |-> dealDisabled, handlersRemoved |-> handlersRemoved,
      activeButton |-> activeButton, stream |-> stream, random |-> random, log |-> log,
      atShowdown |-> atShowdown, previous |-> previous]

\* the variables of Poker.js after a step that leaves them as in g
GameBecomes(g) ==
    /\ usedCardsArr' = g.usedCardsArr
    /\ plyrPair' = g.plyrPair
    /\ playersHands' = g.playersHands
    /\ bestHoleCards' = g.bestHoleCards
    /\ resultList' = g.resultList
    /\ compareCards' = g.compareCards
    /\ playerHighCards' = g.playerHighCards
    /\ playerStraightHighCard' = g.playerStraightHighCard
    /\ activePlayers' = g.activePlayers
    /\ topHand' = g.topHand
    /\ communityCards' = g.communityCards
    /\ thePot' = g.thePot
    /\ playerMoney' = g.playerMoney
    /\ bet' = g.bet
    /\ gameIncrement' = g.gameIncrement
    /\ playedTimes' = g.playedTimes
    /\ countingIterations' = g.countingIterations
    /\ status' = g.status
    /\ lastMove' = g.lastMove
    /\ matchCaption' = g.matchCaption
    /\ raiseCaption' = g.raiseCaption
    /\ roundDisabled' = g.roundDisabled
    /\ dealDisabled' = g.dealDisabled
    /\ handlersRemoved' = g.handlersRemoved
    /\ activeButton' = g.activeButton
    /\ stream' = g.stream
    /\ random' = g.random
    /\ log' = g.log
    /\ atShowdown' = g.atShowdown
    /\ previous' = g.previous
    /\ session' = session

Becomes(g) == GameBecomes(g) /\ UNCHANGED <<cfrPlayer, history>>

\* the page as loaded: no stored balance, only Deal can be used
InitWith(sessions) ==
    /\ usedCardsArr = <<>>
    /\ plyrPair = <<<<>>, <<>>, <<>>, <<>>>>
    /\ playersHands = <<<<>>, <<>>, <<>>, <<>>>>
    /\ bestHoleCards = <<>>
    /\ resultList = <<0, 0, 0, 0>>
    /\ compareCards = <<0, 0, 0, 0>>
    /\ playerHighCards = <<0, 0, 0, 0>>
    /\ playerStraightHighCard = <<0, 0, 0, 0>>
    /\ activePlayers = <<0, 1, 2, 3>>
    /\ topHand = null
    /\ communityCards = <<>>
    /\ thePot = 0
    /\ playerMoney = 500 * Dollar
    /\ bet = 0
    /\ gameIncrement = 1
    /\ playedTimes = 0
    /\ countingIterations = 0
    /\ status = <<"ready", "ready", "ready">>
    /\ lastMove = <<"none", "none", "none">>
    /\ matchCaption = 0
    /\ raiseCaption = 0
    /\ roundDisabled = TRUE
    /\ dealDisabled = FALSE
    /\ handlersRemoved = FALSE
    /\ activeButton \in Buttons
    /\ stream = <<>>
    /\ random = <<>>
    /\ session \in sessions
    /\ log = <<>>
    /\ atShowdown = <<>>
    /\ previous = <<>>

\* the hand about to be dealt takes the session's next entry
Source == session[(playedTimes % Len(session)) + 1]

\* confirm() is only shown to a player without money
Deal ==
    /\ ~dealDisabled /\ ~handlersRemoved
    /\ playedTimes < MaxHands
    /\ \E confirmation \in BOOLEAN :
          /\ playerMoney > 0 => confirmation
          /\ Becomes(deal(G, confirmation, Source))

Match ==
    /\ ~roundDisabled /\ ~handlersRemoved
    /\ Becomes(match(G))

Fold ==
    /\ ~roundDisabled /\ ~handlersRemoved
    /\ Becomes(fold(G))

Next == Deal \/ Match \/ Fold

-----------------------------------------------------------------------------
(* The hands played: per hand the indexes generate() gives (an index already  *)
(* used in the hand is given again in some) and the tenths Math.random()      *)
(* gives for bet2, the three betDecisions and the playerDecisionFactors.      *)

\* players 1, 2 and 3 hold eight and nine; the board is king, queen, five, three, two
ThreeWayTie ==
    [cards |-> <<24, 24, 30, 25, 29, 27, 31, 2, 20, 44, 42, 24, 0, 6, 13>>,
     random |-> <<3, 9, 9, 3, 9, 9, 9, 9, 9, 9>>]

\* players 2 and 3 hold eight and nine, player 1 seven and four
TwoWayTie ==
    [cards |-> <<20, 10, 25, 29, 27, 31, 2, 23, 44, 42, 0, 6, 13>>,
     random |-> <<3, 9, 9, 3, 9, 9, 9, 9, 9, 9>>]

\* player 4 holds eight and nine of clubs, the flop is five, six, seven
LastPlayerStraight ==
    [cards |-> <<48, 45, 2, 20, 5, 38, 26, 30, 15, 16, 21, 43, 3>>,
     random |-> <<3, 3, 3, 9, 9, 9, 9, 9, 9, 9>>]

\* player 1 holds eight and nine, player 2 five and four of hearts, the flop
\* is the five of spades, six, seven
FirstPlayerStraight ==
    [cards |-> <<26, 28, 13, 9, 2, 36, 7, 42, 15, 16, 22, 44, 1>>,
     random |-> <<3, 9, 3, 3, 9, 9, 9, 9, 9, 9>>]

\* player 1 holds five and six of spades; seven, eight and king of spades on
\* the flop, the nine of spades on the turn
SixSpades ==
    [cards |-> <<15, 19, 2, 6, 5, 38, 8, 41, 23, 27, 47, 31, 1>>,
     random |-> <<3, 9, 3, 3, 9, 9, 9, 9, 9, 9>>]

\* player 1 holds ace and two of spades, player 2 king and queen of spades;
\* the board brings the two of diamonds and three spades
TwoFlushes ==
    [cards |-> <<51, 3, 47, 43, 6, 20, 13, 38, 0, 11, 27, 31, 5>>,
     random |-> <<3, 9, 3, 3, 9, 9, 9, 9, 9, 9>>]

\* player 1 holds sevens, player 2 queen and jack, the board two kings and a
\* queen; player 4 folds two aces
FoldedAces ==
    [cards |-> <<23, 21, 41, 37, 2, 24, 51, 50, 44, 46, 40, 7, 10>>,
     random |-> <<3, 9, 3, 3, 9, 9, 9, 9, 9, 9>>]

\* the same hand, player 4 folds five and ten
FoldedJunk ==
    [cards |-> <<23, 21, 41, 37, 2, 24, 14, 32, 44, 46, 40, 7, 10>>,
     random |-> <<3, 9, 3, 3, 9, 9, 9, 9, 9, 9>>]

\* the three opponents fold when the hand is dealt
EveryoneFolds ==
    [cards |-> <<40, 40, 41, 2, 28, 28, 5, 38, 8, 27, 14, 18, 22, 35, 51>>,
     random |-> <<6, 3, 3, 3, 9, 9, 9, 9, 9, 9>>]

\* player 2 bets, players 3 and 4 check and are folded by the next round
CheckedOut ==
    [cards |-> <<46, 12, 39, 35, 33, 10, 40, 3, 29, 29, 4, 19, 46, 21, 48>>,
     random |-> <<9, 9, 6, 6, 3, 3, 3, 3, 3, 3>>]

\* players 2 and 3 are folded when the hand is dealt, player 4 folds at the flop
AloneAtTheFlop ==
    [cards |-> <<49, 44, 22, 0, 31, 9, 36, 6, 13, 24, 42, 35, 19>>,
     random |-> <<3, 9, 6, 6, 3, 3, 3, 3, 3, 3>>]

\* players 3 and 4 checked and are folded at the flop, then player 2 folds
CheckersFolded ==
    [cards |-> <<49, 44, 46, 0, 43, 9, 36, 6, 13, 24, 30, 35, 19>>,
     random |-> <<3, 9, 6, 6, 3, 3, 3, 3, 3, 3>>]

\* player 1 holds ten and queen of spades; ace, two and three of spades, the
\* jack of hearts and the king of diamonds come
RoyalByTwoSuits ==
    [cards |-> <<35, 43, 2, 6, 9, 38, 8, 41, 51, 3, 37, 7, 44>>,
     random |-> <<3, 9, 3, 3, 9, 9, 9, 9, 9, 9>>]

\* player 1 holds ace and two; two, three, four, then five come
PairedWheel ==
    [cards |-> <<49, 2, 26, 30, 17, 38, 20, 41, 0, 7, 9, 14, 28>>,
     random |-> <<3, 9, 3, 3, 9, 9, 9, 9, 9, 9>>]

\* player 1 holds ace and two; the flop is three, four, five
Wheel ==
    [cards |-> <<49, 2, 26, 30, 17, 38, 20, 41, 7, 9, 14, 44, 28>>,
     random |-> <<3, 9, 3, 3, 9, 9, 9, 9, 9, 9>>]

\* player 1 holds two and three; the flop is four, five, six
SixHighStraight ==
    [cards |-> <<2, 4, 26, 30, 17, 38, 20, 41, 9, 14, 19, 44, 32>>,
     random |-> <<3, 9, 3, 3, 9, 9, 9, 9, 9, 9>>]

\* player 1 holds two fours; four, nine, nine, then a third nine come
TwoTriples ==
    [cards |-> <<10, 8, 2, 6, 17, 38, 20, 41, 9, 31, 29, 28, 46>>,
     random |-> <<3, 9, 3, 3, 9, 9, 9, 9, 9, 9>>]

\* player 1 holds ace and king of spades; the flop is queen and jack of
\* spades and the two of hearts
AceKingSuited ==
    [cards |-> <<51, 47, 2, 6, 17, 38, 20, 41, 43, 39, 1, 12, 28>>,
     random |-> <<3, 9, 3, 3, 9, 9, 9, 9, 9, 9>>]

\* player 1 holds nine and seven, players 2 and 3 nine and eight; the board is
\* king, queen, five, three, two
LowerKicker ==
    [cards |-> <<28, 22, 25, 29, 27, 31, 2, 23, 44, 42, 0, 6, 13>>,
     random |-> <<3, 9, 9, 3, 9, 9, 9, 9, 9, 9>>]

Sessions ==
    {<<ThreeWayTie, TwoWayTie>>, <<LastPlayerStraight, FirstPlayerStraight>>,
     <<SixSpades, TwoFlushes>>, <<FoldedAces, FoldedJunk>>,
     <<EveryoneFolds, CheckedOut>>, <<AloneAtTheFlop, CheckersFolded>>,
     <<RoyalByTwoSuits, PairedWheel>>, <<Wheel, SixHighStraight>>,
     <<TwoTriples, AceKingSuited>>, <<LastPlayerStraight, CheckedOut>>,
     <<LowerKicker, TwoWayTie>>}

-----------------------------------------------------------------------------
(* CFR.js: the regret-matching adviser.  A JavaScript number is modelled    *)
(* as an exact fraction n/d in lowest terms, or as Infinity, -Infinity or   *)
(* NaN; rounding of the floating-point operations is not modelled.          *)

RECURSIVE Gcd(_, _)
Gcd(a, b) == IF b = 0 THEN a ELSE Gcd(b, a % b)

Abs(x) == IF x < 0 THEN -x ELSE x

Number(n, d) ==
    LET s == IF d < 0 THEN -1 ELSE 1
        k == Gcd(Abs(n), Abs(d))
    IN  [kind |-> "finite", n |-> (s * n) \div k, d |-> (s * d) \div k]

Zero == Number(0, 1)

One == Number(1, 1)

Infinity == [kind |-> "infinite", n |-> 1, d |-> 0]

NEGATIVE_INFINITY == [kind |-> "infinite", n |-> -1, d |-> 0]

NaN == [kind |-> "NaN", n |-> 0, d |-> 0]

Sign(x) == IF x.n > 0 THEN 1 ELSE IF x.n < 0 THEN -1 ELSE 0

Negated(x) == [x EXCEPT !.n = -x.n]

\* x + y
Plus(x, y) ==
    IF x.kind = "NaN" \/ y.kind = "NaN" THEN NaN
    ELSE IF x.kind = "finite" /\ y.kind = "finite"
         THEN LET k == Gcd(x.d, y.d)
              IN  Number(x.n * (y.d \div k) + y.n * (x.d \div k), x.d * (y.d \div k))
    ELSE IF x.kind = "infinite" /\ y.kind = "infinite"
         THEN IF x.n = y.n THEN x ELSE NaN
    ELSE IF x.kind = "infinite" THEN x ELSE y

\* x - y
Minus(x, y) == Plus(x, Negated(y))

\* x * y
Times(x, y) ==
    IF x.kind = "NaN" \/ y.kind = "NaN" THEN NaN
    ELSE IF x.kind = "finite" /\ y.kind = "finite"
         THEN LET k1 == Gcd(Abs(x.n), y.d)
                  k2 == Gcd(Abs(y.n), x.d)
              IN  Number((x.n \div k1) * (y.n \div k2), (x.d \div k2) * (y.d \div k1))
    ELSE IF Sign(x) = 0 \/ Sign(y) = 0 THEN NaN
    ELSE IF Sign(x) = Sign(y) THEN Infinity ELSE NEGATIVE_INFINITY

\* x / y
Over(x, y) ==
    IF x.kind = "NaN" \/ y.kind = "NaN" THEN NaN
    ELSE IF y.kind = "infinite"
         THEN IF x.kind = "infinite" THEN NaN ELSE Zero
    ELSE IF Sign(y) = 0
         THEN IF Sign(x) = 0 THEN NaN ELSE IF Sign(x) > 0 THEN Infinity ELSE NEGATIVE_INFINITY
    ELSE Times(x, [kind |-> "finite", n |-> Sign(y) * y.d, d |-> Abs(y.n)])

\* x < y; every comparison with NaN is false
Less(x, y) ==
    IF x.kind = "NaN" \/ y.kind = "NaN" THEN FALSE
    ELSE IF x.kind = "infinite" THEN x.n < 0 /\ y # x
    ELSE IF y.kind = "infinite" THEN y.n > 0
    ELSE x.n * y.d < y.n * x.d

\* Math.max(x, y) and Math.min(x, y)
MathMaxOf(x, y) ==
    IF x.kind = "NaN" \/ y.kind = "NaN" THEN NaN ELSE IF Less(x, y) THEN y ELSE x

MathMinOf(x, y) ==
    IF x.kind = "NaN" \/ y.kind = "NaN" THEN NaN ELSE IF Less(y, x) THEN y ELSE x

actions == <<"check", "call", "raise", "allin", "fold">>

numActions == Len(actions)

ActionSet == {actions[i] : i \in 1..numActions}

\* new CFRPlayer()
CFRPlayer ==
    [regretSum |-> [a \in ActionSet |-> Zero], strategySum |-> [a \in ActionSet |-> Zero]]

\* what forEach has added up over the first i actions
RECURSIVE SumOver(_, _)
SumOver(f, i) == IF i = 0 THEN Zero ELSE Plus(SumOver(f, i - 1), f[actions[i]])

\* getStrategy adding to strategySum only what the division gave
getStrategyAddingMatched(self) ==
    LET positive == [a \in ActionSet |-> MathMaxOf(self.regretSum[a], Zero)]
        normalizingSum == SumOver(positive, numActions)
        strategy == [a \in ActionSet |->
                        IF Less(Zero, normalizingSum)
                        THEN Over(positive[a], normalizingSum)
                        ELSE Over(One, Number(numActions, 1))]
    IN  [self |-> [self EXCEPT !.strategySum =
                       [a \in ActionSet |->
                           IF Less(Zero, normalizingSum)
                           THEN Plus(self.strategySum[a], strategy[a])
                           ELSE self.strategySum[a]]],
         strategy |-> strategy]

\* the player after the call, and the strategy returned
getStrategy(self) ==
    LET positive == [a \in ActionSet |-> MathMaxOf(self.regretSum[a], Zero)]
        normalizingSum == SumOver(positive, numActions)
        strategy == [a \in ActionSet |->
                        IF Less(Zero, normalizingSum)
                        THEN Over(positive[a], normalizingSum)
                        ELSE Over(One, Number(numActions, 1))]
    IN  [self |-> [self EXCEPT !.strategySum =
                       [a \in ActionSet |-> Plus(self.strategySum[a], strategy[a])]],
         strategy |-> strategy]

\* getAverageStrategy without the division
getAverageStrategyUndivided(self) ==
    LET normalizingSum == SumOver(self.strategySum, numActions)
    IN  [a \in ActionSet |->
            IF Less(Zero, normalizingSum)
            THEN self.strategySum[a]
            ELSE Over(One, Number(numActions, 1))]

getAverageStrategy(self) ==
    LET normalizingSum == SumOver(self.strategySum, numActions)
    IN  [a \in ActionSet |->
            IF Less(Zero, normalizingSum)
            THEN Over(self.strategySum[a], normalizingSum)
            ELSE Over(One, Number(numActions, 1))]

\* the loop of selectAction from action i on; r is what Math.random() gave
RECURSIVE SelectFrom(_, _, _, _)
SelectFrom(strategy, r, i, cumulativeProbability) ==
    IF i > numActions THEN actions[numActions]
    ELSE LET cumulative == Plus(cumulativeProbability, strategy[actions[i]])
         IN  IF Less(r, cumulative) THEN actions[i]
             ELSE SelectFrom(strategy, r, i + 1, cumulative)

selectAction(strategy, r) == SelectFrom(strategy, r, 1, Zero)

\* updateRegrets starting strategySum afresh as well
updateRegretsClearingStrategy(self, actionTaken, reward, counterfactualRewards) ==
    [self EXCEPT !.regretSum =
        [a \in ActionSet |->
            Plus(self.regretSum[a], Minus(counterfactualRewards[a], reward))],
                 !.strategySum = [a \in ActionSet |-> Zero]]

updateRegrets(self, actionTaken, reward, counterfactualRewards) ==
    [self EXCEPT !.regretSum =
        [a \in ActionSet |->
            Plus(self.regretSum[a], Minus(counterfactualRewards[a], reward))]]

isValidAction(currentState, action) ==
    CASE action = "check" -> currentState.canCheck
      [] action = "call" -> currentState.canCall
      [] action = "raise" -> currentState.canRaise
      [] action = "allin" -> currentState.canAllIn
      [] action = "fold" -> currentState.canFold
      [] OTHER -> FALSE

\* card.value, card.rank, card.suit of a card object; a missing property is undefined
Property(card, name) == IF name \in DOMAIN card THEN card[name] ELSE "undefined"

rankOrder == <<"2", "3", "4", "5", "6", "7", "8", "9", "10", "J", "Q", "K", "A">>

RECURSIVE SortAscending(_)
SortAscending(list) ==
    IF list = <<>> THEN <<>>
    ELSE LET low == CHOOSE x \in {list[i] : i \in 1..Len(list)} :
                        \A i \in 1..Len(list) : x <= list[i]
             at == CHOOSE i \in 1..Len(list) : list[i] = low
         IN  <<low>> \o SortAscending(SubSeq(list, 1, at - 1) \o SubSeq(list, at + 1, Len(list)))

\* how often the most frequent suit appears
MaxSuitCount(allCards) ==
    LET suits == {Property(allCards[i], "suit") : i \in 1..Len(allCards)}
        count(s) == Cardinality({i \in 1..Len(allCards) : Property(allCards[i], "suit") = s})
    IN  CHOOSE m \in {count(s) : s \in suits} : \A s \in suits : count(s) <= m

\* the strength in tenths, before the high-card adjustment
StrengthTenths(allCards) ==
    LET valued == {i \in 1..Len(allCards) : Property(allCards[i], "value") # "undefined"}
        values == {allCards[i].value : i \in valued}
        rankCounts == [v \in values |-> Cardinality({i \in valued : allCards[i].value = v})]
        counts == {rankCounts[v] : v \in values}
        \* Math.max() of no numbers is -Infinity, which equals none of 4, 3, 2
        maxCount == IF counts = {} THEN -1
                    ELSE CHOOSE m \in counts : \A c \in counts : c <= m
        pairs == Cardinality({v \in values : rankCounts[v] = 2})
        maxSuitCount == MaxSuitCount(allCards)
        rankIndices == SortAscending([i \in 1..Len(allCards) |->
                                         indexOf(rankOrder, Property(allCards[i], "rank"))])
        isStraight == \E i \in 0..(Len(rankIndices) - 5) :
                          At(rankIndices, i + 4) - At(rankIndices, i) = 4
    IN  IF maxSuitCount >= 5 /\ isStraight THEN 10
        ELSE IF maxCount = 4 THEN 9
        ELSE IF maxCount = 3 /\ 2 \in counts THEN 8
        ELSE IF maxSuitCount >= 5 THEN 7
        ELSE IF isStraight THEN 6
        ELSE IF maxCount = 3 THEN 5
        ELSE IF pairs >= 2 THEN 4
        ELSE IF maxCount = 2 THEN 3
        ELSE 2

\* calculateHandStrength(playerHand, communityCards) of CFR.js
calculateHandStrengthCFR(playerHand, community) ==
    LET allCards == playerHand \o community
        highCardIndex == MathMax([i \in 1..Len(allCards) |->
                                     indexOf(rankOrder, Property(allCards[i], "rank"))])
    IN  Plus(Number(StrengthTenths(allCards), 10),
             Times(Number(highCardIndex, Len(rankOrder)), Number(1, 10)))

calculateOuts(playerHand, community) ==
    LET maxSuitCount == MaxSuitCount(playerHand \o community)
    IN  IF maxSuitCount = 4 THEN 9 ELSE IF maxSuitCount = 3 THEN 10 ELSE 0

getImprovementFactor(currentState) ==
    LET outs == calculateOuts(currentState.playerHand, currentState.communityCards)
        remainingCards == 52 - currentState.cardsDealt
    IN  MathMinOf(Times(Over(Number(outs, 1), Number(remainingCards, 1)), Number(2, 1)), One)

calculateReward(currentState, action) ==
    LET handStrength == calculateHandStrengthCFR(currentState.playerHand,
                                                  currentState.communityCards)
        potSize == Number(currentState.potSize, 1)
        playerBet == Number(currentState.playerBet, 1)
        remainingPlayers == currentState.remainingPlayers
        estimatedReward ==
            CASE action = "check" ->
                     IF currentState.canCheck THEN Times(handStrength, Number(1, 2))
                     ELSE NEGATIVE_INFINITY
              [] action = "call" ->
                     IF currentState.canCall THEN Minus(Times(handStrength, potSize), playerBet)
                     ELSE NEGATIVE_INFINITY
              [] action = "raise" ->
                     IF currentState.canRaise
                     THEN Minus(Times(handStrength,
                                      Plus(potSize, Number(currentState.raiseAmount, 1))),
                                playerBet)
                     ELSE NEGATIVE_INFINITY
              [] action = "allin" ->
                     IF currentState.canAllIn
                     THEN Minus(Times(handStrength,
                                      Plus(potSize, Number(currentState.playerStack, 1))),
                                playerBet)
                     ELSE NEGATIVE_INFINITY
              [] action = "fold" ->
                     IF currentState.canFold THEN Negated(playerBet) ELSE NEGATIVE_INFINITY
              [] OTHER -> NEGATIVE_INFINITY
        adjusted == IF remainingPlayers > 1 /\ Less(NEGATIVE_INFINITY, estimatedReward)
                    THEN Times(estimatedReward, Number(2, remainingPlayers))
                    ELSE estimatedReward
    IN  Times(adjusted, getImprovementFactor(currentState))

calculateCounterfactualRewards(currentState) ==
    [a \in ActionSet |->
        IF isValidAction(currentState, a) THEN calculateReward(currentState, a)
        ELSE NEGATIVE_INFINITY]

\* the example state of CFR.js
getCurrentState ==
    [playerHand |-> <<[rank |-> "A", suit |-> "spades"], [rank |-> "K", suit |-> "spades"]>>,
     communityCards |-> <<[rank |-> "Q", suit |-> "spades"], [rank |-> "J", suit |-> "spades"],
                          [rank |-> "2", suit |-> "hearts"]>>,
     potSize |-> 100, playerBet |-> 10, remainingPlayers |-> 3,
     canCheck |-> TRUE, canCall |-> FALSE, canRaise |-> TRUE, canAllIn |-> TRUE,
     canFold |-> TRUE, raiseAmount |-> 20, playerStack |-> 1000, cardsDealt |-> 5]

\* one pass of the loop of train: the player afterwards, the strategy, the action
Iteration(self, currentState, r) ==
    Then(getStrategy(self), LAMBDA got :
    Then(selectAction(got.strategy, r), LAMBDA action :
    Then(calculateCounterfactualRewards(currentState), LAMBDA counterfactualRewards :
        [self |-> updateRegrets(got.self, action, counterfactualRewards[action],
                                counterfactualRewards),
         regretSum |-> self.regretSum, strategy |-> got.strategy, action |-> action])))

\* train(iterations, currentState); rs[i] is what Math.random() gives in pass i.
\* The result is the player with what each pass saw and chose.
RECURSIVE train(_, _, _, _)
train(self, iterations, currentState, rs) ==
    IF iterations = 0 THEN [self |-> self, passes |-> <<>>]
    ELSE Then(train(self, iterations - 1, currentState, rs), LAMBDA before :
         Then(Iteration(before.self, currentState, rs[iterations]), LAMBDA pass :
             [self |-> pass.self,
              passes |-> Append(before.passes, [regretSum |-> pass.regretSum,
                                                strategy |-> pass.strategy,
                                                action |-> pass.action])]))

\* the reduce of recommendAction over the first i actions
RECURSIVE Reduced(_, _)
Reduced(averageStrategy, i) ==
    IF i = 1 THEN actions[1]
    ELSE LET a == Reduced(averageStrategy, i - 1)
             b == actions[i]
         IN  IF Less(averageStrategy[b], averageStrategy[a]) THEN a ELSE b

recommendAction(self) ==
    LET averageStrategy == getAverageStrategy(self)
    IN  [recommendedAction |-> Reduced(averageStrategy, numActions),
         averageStrategy |-> averageStrategy]

\* nothing has been called on the player, which is to be trained against currentState
Started(currentState) ==
    [operation |-> "new", currentState |-> currentState, calls |-> 0,
     passes |-> <<>>, returned |-> <<>>]

-----------------------------------------------------------------------------

Init ==
    /\ InitWith(Sessions)
    /\ cfrPlayer = CFRPlayer
    /\ history = Started(getCurrentState)

Spec == Init /\ [][Next]_vars

-----------------------------------------------------------------------------
(* The adviser on its own: a player is constructed for one state of the     *)
(* table and its methods are called in any order.                            *)

\* getStrategy is called at most this often
MaxCalls == 3

\* Math.random() gives a multiple of 1 / RandomSteps
RandomSteps == 5

\* the states the player is trained against: the cards of the example state with
\* small stakes, and every setting of the five flags that allows some action
CurrentStates ==
    {[getCurrentState EXCEPT !.potSize = 1, !.playerBet = 0, !.raiseAmount = 1,
                             !.playerStack = 2,
                             !.canCheck = f[1], !.canCall = f[2], !.canRaise = f[3],
                             !.canAllIn = f[4], !.canFold = f[5]] :
        f \in {h \in [1..numActions -> BOOLEAN] : \E i \in 1..numActions : h[i]}}

CFRInit ==
    /\ InitWith({<<ThreeWayTie, TwoWayTie>>})
    /\ activeButton = "none"
    /\ cfrPlayer = CFRPlayer
    /\ history \in {Started(s) : s \in CurrentStates}

Train ==
    \E iterations \in 1..(MaxCalls - history.calls) :
        \E rs \in [1..iterations -> 0..(RandomSteps - 1)] :
            \E trained \in {train(cfrPlayer, iterations, history.currentState,
                                    [i \in 1..iterations |-> Number(rs[i], RandomSteps)])} :
                /\ cfrPlayer' = trained.self
                /\ history' = [history EXCEPT !.operation = "train",
                                              !.calls = @ + iterations,
                                              !.passes = trained.passes,
                                              !.returned = <<>>]
                /\ UNCHANGED gameVars

GetStrategy ==
    /\ history.calls < MaxCalls
    /\ \E got \in {getStrategy(cfrPlayer)} :
           /\ cfrPlayer' = got.self
           /\ history' = [history EXCEPT !.operation = "getStrategy",
                                         !.calls = @ + 1,
                                         !.passes = <<>>,
                                         !.returned = <<[regretSum |-> cfrPlayer.regretSum,
                                                         strategy |-> got.strategy]>>]
    /\ UNCHANGED gameVars

GetAverageStrategy ==
    /\ history' = [history EXCEPT !.operation = "getAverageStrategy",
                                  !.passes = <<>>,
                                  !.returned = <<getAverageStrategy(cfrPlayer)>>]
    /\ UNCHANGED <<gameVars, cfrPlayer>>

RecommendAction ==
    /\ history' = [history EXCEPT !.operation = "recommendAction",
                                  !.passes = <<>>,
                                  !.returned = <<recommendAction(cfrPlayer)>>]
    /\ UNCHANGED <<gameVars, cfrPlayer>>

CFRNext == Train \/ GetStrategy \/ GetAverageStrategy \/ RecommendAction

CFRSpec == CFRInit /\ [][CFRNext]_vars

-----------------------------------------------------------------------------
(* The ranking of poker hands the claims speak of: the category of five      *)
(* cards, their tiebreak key, and the best five of the cards a player can    *)
(* use.  A card is a record with a value and a suit.                         *)

Rank(card) == indexOf(cardHeirarchy, card.value)

RanksOf(five) == {Rank(c) : c \in five}

CountOf(five, r) == Cardinality({c \in five : Rank(c) = r})

HasGroup(five, n) == \E r \in RanksOf(five) : CountOf(five, r) = n

IsFlush(five) == \E c \in five : \A d \in five : d.suit = c.suit

IsWheel(five) == RanksOf(five) = {12, 0, 1, 2, 3}

IsStraight(five) ==
    /\ Cardinality(RanksOf(five)) = 5
    /\ \/ IsWheel(five)
       \/ \E low \in RanksOf(five) : RanksOf(five) = low..(low + 4)

StraightTop(five) ==
    IF IsWheel(five) THEN 3
    ELSE CHOOSE r \in RanksOf(five) : \A q \in RanksOf(five) : q <= r

StandardCategory(five) ==
    IF IsStraight(five) /\ IsFlush(five) THEN (IF StraightTop(five) = 12 THEN 9 ELSE 8)
    ELSE IF HasGroup(five, 4) THEN 7
    ELSE IF HasGroup(five, 3) /\ HasGroup(five, 2) THEN 6
    ELSE IF IsFlush(five) THEN 5
    ELSE IF IsStraight(five) THEN 4
    ELSE IF HasGroup(five, 3) THEN 3
    ELSE IF Cardinality({r \in RanksOf(five) : CountOf(five, r) = 2}) = 2 THEN 2
    ELSE IF HasGroup(five, 2) THEN 1
    ELSE 0

\* group ranks first, then kickers, highest first; the top rank for straights
TiebreakKey(five) ==
    IF IsStraight(five) THEN <<StraightTop(five)>>
    ELSE SortSeq(SelectSeq([i \in 1..13 |-> 13 - i], LAMBDA r : r \in RanksOf(five)),
                 LAMBDA a, b : \/ CountOf(five, a) > CountOf(five, b)
                               \/ CountOf(five, a) = CountOf(five, b) /\ a > b)

HandKey(five) == <<StandardCategory(five)>> \o TiebreakKey(five)

LexLess(a, b) ==
    \E k \in 1..Len(a) : /\ k <= Len(b)
                         /\ a[k] < b[k]
                         /\ \A j \in 1..(k - 1) : a[j] = b[j]

Fives(cards) == {five \in SUBSET cards : Cardinality(five) = 5}

BestKey(cards) ==
    CHOOSE key \in {HandKey(five) : five \in Fives(cards)} :
        \A five \in Fives(cards) : ~LexLess(key, HandKey(five))

\* the community cards as they were drawn
Board == [k \in 1..(Len(usedCardsArr) - 8) |-> CardOfTitle(usedCardsArr[8 + k])]

Hole(p) == {playersHands[p + 1][k] : k \in 1..Len(playersHands[p + 1])}

CardsOf(p) == Hole(p) \cup {Board[k] : k \in 1..Len(Board)}

Active == {activePlayers[k] : k \in 1..Len(activePlayers)}

\* the last call of youWin or youLose in this hand, and the player it names
Outcome == log[Len(log)]

Declared == IF Outcome.call = "youWin" THEN 0 ELSE Outcome.who

\* the showdown has taken place with the five community cards drawn
ShownDown == atShowdown # <<>> /\ log # <<>> /\ Len(Board) = 5

ShowdownPlayers ==
    {atShowdown[1].played.active[k] : k \in 1..Len(atShowdown[1].played.active)}

\* the players holding the highest stored category when the showdown began
TopHolders ==
    {p \in ShowdownPlayers :
        \A q \in ShowdownPlayers :
            atShowdown[1].resultList[q + 1] <= atShowdown[1].resultList[p + 1]}

\* the players whose best five cards are beaten by nobody at the showdown
BestPlayers ==
    {p \in ShowdownPlayers :
        \A q \in ShowdownPlayers : ~LexLess(BestKey(CardsOf(p)), BestKey(CardsOf(q)))}

-----------------------------------------------------------------------------
(* C1: in every state of a hand no card title occurs twice among the hole    *)
(* cards and the community cards dealt, and a hand played to the river has   *)
(* drawn 13 distinct cards.                                                  *)

TableTitles ==
    [k \in 1..8 |-> LET hand == playersHands[((k - 1) \div 2) + 1]
                    IN  IF ((k - 1) % 2) + 1 <= Len(hand)
                        THEN <<Title(hand[((k - 1) % 2) + 1].value,
                                     hand[((k - 1) % 2) + 1].suit)>>
                        ELSE <<>>]
    \o [k \in 1..Len(communityCards) |->
           IF "number" \in DOMAIN communityCards[k] THEN <<>>
           ELSE <<Title(communityCards[k].value, communityCards[k].suit)>>]

C1_ThirteenDistinctCards ==
    /\ \A i, j \in 1..Len(TableTitles) :
           i # j /\ TableTitles[i] # <<>> => TableTitles[i] # TableTitles[j]
    /\ \A i, j \in 1..Len(usedCardsArr) : i # j => usedCardsArr[i] # usedCardsArr[j]
    /\ gameIncrement = 4 =>
           Cardinality({usedCardsArr[k] : k \in 1..Len(usedCardsArr)}) = 13

-----------------------------------------------------------------------------
(* C2: after the flop of a freshly dealt hand has been evaluated, the        *)
(* category stored for every player still in the hand is a value in 0..9 and *)
(* is the standard poker category of the player's two hole cards and the     *)
(* three flop cards.                                                         *)

AtFlop == gameIncrement = 2 /\ Len(usedCardsArr) = 11

C2_FlopCategory ==
    AtFlop => \A p \in Active : /\ resultList[p + 1] \in 0..9
                                /\ resultList[p + 1] = StandardCategory(CardsOf(p))

-----------------------------------------------------------------------------
(* C3: at the river showdown, when exactly one active player holds the       *)
(* highest category, topHand is that player and the whole pot goes to that   *)
(* player: youWin credits thePot when it is player 0, youLose names the      *)
(* opponent otherwise.                                                       *)

C3_UniqueTopCategoryWins ==
    atShowdown # <<>> /\ Cardinality(TopHolders) = 1 =>
        \A w \in TopHolders :
            /\ topHand = w
            /\ log # <<>>
            /\ IF w = 0
               THEN /\ Outcome.call = "youWin" /\ Outcome.type = "default"
                    /\ Outcome.amount = atShowdown[1].thePot
               ELSE /\ Outcome.call = "youLose" /\ Outcome.who = w

\* an opponent alone holds the highest category among several players
C3_Witness ==
    /\ atShowdown # <<>> /\ Cardinality(ShowdownPlayers) >= 2
    /\ Cardinality(TopHolders) = 1 /\ 0 \notin TopHolders
    /\ log # <<>> /\ Outcome.call = "youLose"

-----------------------------------------------------------------------------
(* C4: at the river showdown, when two or more active players share the      *)
(* highest category, the player declared the winner is one of them and no    *)
(* other of them has a greater tiebreak key of the best five cards; a player *)
(* with a smaller key neither wins nor shares the pot.                       *)

C4_TieBrokenByKey ==
    ShownDown /\ Cardinality(TopHolders) >= 2 =>
        /\ Declared \in TopHolders
        /\ \A q \in TopHolders :
               ~LexLess(BestKey(CardsOf(Declared)), BestKey(CardsOf(q)))

-----------------------------------------------------------------------------
(* C5: when two active players reach the river with hands of the same        *)
(* category and the same tiebreak key and no active player beats them, the   *)
(* showdown reports a split, whether or not player 0 is one of the two.      *)

C5_EqualHandsSplit ==
    ShownDown /\ Cardinality(BestPlayers) >= 2 => Outcome.type = "split"

-----------------------------------------------------------------------------
(* C6: when k >= 2 players tie exactly at the showdown, what                 *)
(* youWin("split") credits to player 0 is the pot divided by k.              *)

C6_SplitShare ==
    ShownDown /\ Outcome.type = "split" =>
        Outcome.amount * Cardinality(BestPlayers) = Outcome.potBefore

-----------------------------------------------------------------------------
(* C7: a player who folded before the river takes no part in the showdown:   *)
(* topHand is never a folded player, and two hands with the same community   *)
(* cards and the same active players holding the same hole cards, which      *)
(* differ only in what the folded players hold, have the same outcome.       *)

Calls(l) == [k \in 1..Len(l) |-> <<l[k].call, l[k].type, l[k].who>>]

C7_FoldedTakeNoPart ==
    atShowdown # <<>> =>
        /\ topHand \in ShowdownPlayers
        /\ previous # <<>> /\ previous[1].played = atShowdown[1].played =>
               /\ previous[1].topHand = topHand
               /\ Calls(previous[1].log) = Calls(log)

-----------------------------------------------------------------------------
(* C8: whenever folds have left exactly one active player, that player is    *)
(* declared the only winner of the pot, whatever resultList holds and        *)
(* whatever cards were dealt: the player is player 0, and every outcome of   *)
(* the hand is youWin("default") crediting the whole pot.                    *)

C8_LastPlayerWins ==
    Len(activePlayers) = 1 =>
        /\ activePlayers = <<0>>
        /\ log # <<>>
        /\ \A k \in 1..Len(log) :
               /\ log[k].call = "youWin" /\ log[k].type = "default"
               /\ log[k].amount = log[k].potBefore

\* the last opponent has folded at the flop
C8_Witness ==
    /\ activePlayers = <<0>> /\ log # <<>>
    /\ gameIncrement = 2 /\ Len(Board) = 3

-----------------------------------------------------------------------------
(* C9: an outcome (a call of youWin or youLose, or an assignment of topHand) *)
(* happens only when one player is left active, or at the river              *)
(* (gameStep = 4) once the last active player has been evaluated; none       *)
(* happens before the flop, at the flop or at the turn while two or more     *)
(* players are active.                                                       *)

C9_OutcomeOnlyAtEnd ==
    /\ \A k \in 1..Len(log) :
           \/ Len(log[k].active) = 1
           \/ /\ log[k].step = 4 /\ atShowdown # <<>>
              /\ atShowdown[1].countingIterations =
                     atShowdown[1].played.active[Len(atShowdown[1].played.active)]
    /\ topHand # null => atShowdown # <<>> /\ gameIncrement = 4
    /\ gameIncrement < 4 /\ Len(activePlayers) >= 2 => log = <<>> /\ topHand = null

\* an outcome declared at the river among several active players
C9_Witness ==
    /\ log # <<>> /\ log[Len(log)].step = 4 /\ Len(log[Len(log)].active) >= 2
    /\ topHand # null

-----------------------------------------------------------------------------
(* C10: at the flop, the turn and the river, an active player whose five to  *)
(* seven cards hold five or more cards of one suit has a stored category of  *)
(* at least flush (resultList >= 5) after evaluateHand.                      *)

SuitCount(cards, s) == Cardinality({c \in cards : c.suit = s})

C10_FiveSuitedIsFlush ==
    gameIncrement \in 2..4 /\ Len(usedCardsArr) = 9 + gameIncrement =>
        \A p \in Active :
            (\E k \in 1..Len(suitArr) : SuitCount(CardsOf(p), suitArr[k]) >= 5)
                => resultList[p + 1] >= 5

-----------------------------------------------------------------------------
(* C11: a player is given straight-flush (8) or royal-flush (9) only when    *)
(* five of the player's cards are of one suit and of five consecutive ranks, *)
(* and royal-flush only when those five are ten to ace; a straight and a     *)
(* flush made of different cards give neither.                               *)

\* the ranks of the five-card run ending at top; the run ending at five
\* starts with the ace
RunTo(top) == IF top = 3 THEN {12, 0, 1, 2, 3} ELSE (top - 4)..top

SuitedRun(cards, top) ==
    \E k \in 1..Len(suitArr) :
        \A r \in RunTo(top) : \E c \in cards : c.suit = suitArr[k] /\ Rank(c) = r

\* the community cards of the round have all been drawn
BoardDrawn == gameIncrement \in 2..4 /\ Len(usedCardsArr) = 9 + gameIncrement

C11_StraightFlushOfOneSuit ==
    BoardDrawn =>
        \A p \in Active :
            /\ resultList[p + 1] >= 8 => \E top \in 3..12 : SuitedRun(CardsOf(p), top)
            /\ resultList[p + 1] = 9 => SuitedRun(CardsOf(p), 12)

-----------------------------------------------------------------------------
(* C12: evaluateHand finds a straight (a category of at least 4) exactly     *)
(* when the player's five to seven cards hold five distinct consecutive      *)
(* ranks, the ace counting above the king or below the two; a rank held      *)
(* twice neither hides such a run nor makes one.                             *)

HasRun(cards) == \E top \in 3..12 : RunTo(top) \subseteq RanksOf(cards)

C12_StraightIffRun ==
    BoardDrawn =>
        \A p \in Active :
            /\ HasRun(CardsOf(p)) => resultList[p + 1] >= 4
            /\ resultList[p + 1] = 4 => HasRun(CardsOf(p))

-----------------------------------------------------------------------------
(* C13: a hand that holds ace, two, three, four, five and no higher straight *)
(* is a straight (category 4) whose recorded top rank                        *)
(* playerStraightHighCard is five (index 3), below the top rank recorded for *)
(* a six-high straight (index 4).                                            *)

\* the best five cards are a straight ending at top
BestStraightTo(cards, top) == BestKey(cards) = <<4, top>>

C13_WheelTopIsFive ==
    BoardDrawn =>
        \A p \in Active :
            /\ RunTo(3) \subseteq RanksOf(CardsOf(p)) /\ BestStraightTo(CardsOf(p), 3)
                   => resultList[p + 1] = 4 /\ playerStraightHighCard[p + 1] = 3
            /\ RunTo(4) \subseteq RanksOf(CardsOf(p)) /\ BestStraightTo(CardsOf(p), 4)
                   => resultList[p + 1] = 4 /\ playerStraightHighCard[p + 1] = 4

-----------------------------------------------------------------------------
(* C14: when a player's six or seven cards hold two ranks three times each,  *)
(* evaluateHand gives full-house (6) with the higher rank as the triple (the *)
(* rank the category is compared by) and the lower rank as the pair.         *)

Triples(cards) == {r \in RanksOf(cards) : CountOf(cards, r) = 3}

C14_TwoTriplesFullHouse ==
    BoardDrawn /\ atShowdown = <<>> =>
        \A p \in Active :
            Cardinality(Triples(CardsOf(p))) = 2 =>
                /\ resultList[p + 1] = 6
                /\ \A r \in Triples(CardsOf(p)) : r <= compareCards[p + 1]
                /\ compareCards[p + 1] \in Triples(CardsOf(p))

-----------------------------------------------------------------------------
(* C15: for the hole cards ace and king of spades with the community cards   *)
(* queen of spades, jack of spades and two of hearts, the evaluation gives   *)
(* category straight-flush (8) with the ace (index 12) as compare card, and  *)
(* calculateHandStrength takes its straight-flush branch (8).                *)

AceKingFlop(p) ==
    /\ gameIncrement = 2
    /\ Hole(p) = {[suit |-> "spades", value |-> "ace"], [suit |-> "spades", value |-> "king"]}
    /\ Board = <<[suit |-> "spades", value |-> "queen"], [suit |-> "spades", value |-> "jack"],
                 [suit |-> "hearts", value |-> "two"]>>

C15_AceKingStraightFlush ==
    \A p \in Active :
        AceKingFlop(p) =>
            /\ resultList[p + 1] = 8
            /\ compareCards[p + 1] = 12
            /\ calculateHandStrength(playersHands[p + 1]) = 8

(* C15 as the code has it: with these five cards (four spades, no five       *)
(* consecutive ranks) the evaluation gives high-card (0) with the ace (index *)
(* 12) as compare card, while calculateHandStrength, which reads the two     *)
(* hole cards only, takes its straight-flush branch (8).                     *)
C15_AceKingHighCard ==
    \A p \in Active :
        AceKingFlop(p) =>
            /\ resultList[p + 1] = 0
            /\ compareCards[p + 1] = 12
            /\ calculateHandStrength(playersHands[p + 1]) = 8

C15_Witness == \E p \in Active : AceKingFlop(p) /\ Len(communityCards) = 3

-----------------------------------------------------------------------------
(* C16: within a hand the community cards are append-only and hold dealt     *)
(* cards only: none after deal(), three after the first match(), four after  *)
(* the second, five after the third; every step keeps what is there and      *)
(* appends, and nothing (evaluateHand included) replaces or removes an       *)
(* element.                                                                  *)

IsPrefix(a, b) == Len(a) <= Len(b) /\ \A k \in 1..Len(a) : a[k] = b[k]

DealtOnly(cc) == \A k \in 1..Len(cc) : "number" \notin DOMAIN cc[k]

C16_BoardAppendOnly ==
    [][/\ playedTimes' # playedTimes => communityCards' = <<>>
       /\ playedTimes' = playedTimes =>
              /\ IsPrefix(communityCards, communityCards')
              /\ DealtOnly(communityCards')
              /\ gameIncrement' = gameIncrement + 1 =>
                     Len(communityCards') = gameIncrement' + 1]_vars

-----------------------------------------------------------------------------
(* The functions of the adviser applied to given arguments *)

\* the keys of the strategy object of the standalone functions, in the order
\* getStrategy creates them
standaloneActions == <<"check", "match", "raise", "allin">>

\* the loop of the standalone selectAction from key i on
RECURSIVE SelectStandaloneFrom(_, _, _, _)
SelectStandaloneFrom(strategy, randomValue, i, cumulativeProbability) ==
    IF i > Len(standaloneActions) THEN "check"
    ELSE LET cumulative == Plus(cumulativeProbability, strategy[standaloneActions[i]])
         IN  IF Less(randomValue, cumulative) THEN standaloneActions[i]
             ELSE SelectStandaloneFrom(strategy, randomValue, i + 1, cumulative)

\* selectAction(strategy) outside the class
selectActionStandalone(strategy, randomValue) ==
    SelectStandaloneFrom(strategy, randomValue, 1, Zero)

\* five cards without three of a suit: calculateOuts gives 0
NoDrawHand == <<[rank |-> "A", suit |-> "spades"], [rank |-> "K", suit |-> "hearts"]>>

NoDrawBoard ==
    <<[rank |-> "Q", suit |-> "diamonds"], [rank |-> "J", suit |-> "clubs"],
      [rank |-> "2", suit |-> "hearts"]>>

\* the settings of canCheck .. canFold tried: none, those of the example state, all
FlagSettings == {<<FALSE, FALSE, FALSE, FALSE, FALSE>>, <<TRUE, FALSE, TRUE, TRUE, TRUE>>,
                 <<TRUE, TRUE, TRUE, TRUE, TRUE>>}

\* the states the functions are applied to: the example state and variations of
\* its cards, remainingPlayers, cardsDealt and flags
FunctionStates ==
    {[getCurrentState EXCEPT !.playerHand = cs[1], !.communityCards = cs[2],
                             !.remainingPlayers = players, !.cardsDealt = dealt,
                             !.canCheck = f[1], !.canCall = f[2], !.canRaise = f[3],
                             !.canAllIn = f[4], !.canFold = f[5]] :
        cs \in {<<getCurrentState.playerHand, getCurrentState.communityCards>>,
                <<NoDrawHand, NoDrawBoard>>},
        players \in {1, 3}, dealt \in {5, 6}, f \in FlagSettings}

\* strategies handed to selectAction, as probabilities per action in the order
\* of the list: uniform, all on the third action, uneven, and one whose
\* probabilities add up to less than 1
StrategyShapes(n) ==
    {[i \in 1..n |-> Number(1, n)],
     [i \in 1..n |-> IF i = 3 THEN One ELSE Zero],
     [i \in 1..n |-> IF i = 1 THEN Number(2, 5) ELSE IF i = n THEN Number(3, 5) ELSE Zero],
     [i \in 1..n |-> IF i = 2 THEN Number(3, 5) ELSE Zero]}

StrategyOver(list, shape) ==
    [a \in {list[i] : i \in 1..Len(list)} |-> shape[indexOf(list, a) + 1]]

FunctionInit ==
    /\ InitWith({<<ThreeWayTie, TwoWayTie>>})
    /\ activeButton = "none"
    /\ cfrPlayer = CFRPlayer
    /\ history \in {Started(s) : s \in FunctionStates}

CalculateReward ==
    /\ \E action \in ActionSet :
           history' = [history EXCEPT
                          !.operation = "calculateReward",
                          !.returned = <<[action |-> action,
                                          reward |-> calculateReward(history.currentState,
                                                                     action)]>>]
    /\ UNCHANGED <<gameVars, cfrPlayer>>

CalculateCounterfactualRewards ==
    /\ history' = [history EXCEPT
                      !.operation = "calculateCounterfactualRewards",
                      !.returned = <<calculateCounterfactualRewards(history.currentState)>>]
    /\ UNCHANGED <<gameVars, cfrPlayer>>

SelectAction ==
    /\ \E shape \in StrategyShapes(numActions), r \in 0..(RandomSteps - 1) :
           LET strategy == StrategyOver(actions, shape)
           IN  history' = [history EXCEPT
                              !.operation = "selectAction",
                              !.returned = <<[strategy |-> strategy,
                                              r |-> Number(r, RandomSteps),
                                              action |-> selectAction(strategy,
                                                             Number(r, RandomSteps))]>>]
    /\ UNCHANGED <<gameVars, cfrPlayer>>

SelectActionStandalone ==
    /\ \E shape \in StrategyShapes(Len(standaloneActions)), r \in 0..(RandomSteps - 1) :
           LET strategy == StrategyOver(standaloneActions, shape)
           IN  history' = [history EXCEPT
                              !.operation = "selectAction (standalone)",
                              !.returned = <<[strategy |-> strategy,
                                              r |-> Number(r, RandomSteps),
                                              action |-> selectActionStandalone(strategy,
                                                             Number(r, RandomSteps))]>>]
    /\ UNCHANGED <<gameVars, cfrPlayer>>

FunctionNext ==
    CalculateReward \/ CalculateCounterfactualRewards \/ SelectAction
        \/ SelectActionStandalone

FunctionSpec == FunctionInit /\ [][FunctionNext]_vars

-----------------------------------------------------------------------------
(* Every method of the player called on its own, in any order *)

\* updateRegrets(actionTaken, reward, counterfactualRewards) with the rewards of
\* the state the player was constructed for, as train hands them over
UpdateRegrets ==
    /\ history.calls < MaxCalls
    /\ \E actionTaken \in ActionSet :
           \E counterfactualRewards \in {calculateCounterfactualRewards(history.currentState)} :
               /\ cfrPlayer' = updateRegrets(cfrPlayer, actionTaken,
                                             counterfactualRewards[actionTaken],
                                             counterfactualRewards)
               /\ history' = [history EXCEPT !.operation = "updateRegrets",
                                             !.calls = @ + 1,
                                             !.passes = <<>>,
                                             !.returned = <<[action |-> actionTaken]>>]
    /\ UNCHANGED gameVars

MethodNext ==
    \/ GetStrategy
    \/ UpdateRegrets
    \/ GetAverageStrategy
    \/ RecommendAction
    \/ SelectAction
    \/ CalculateReward
    \/ CalculateCounterfactualRewards

\* a player constructed for a state of the table in which checking and folding
\* are allowed, whatever the other flags
MethodInit ==
    /\ InitWith({<<ThreeWayTie, TwoWayTie>>})
    /\ activeButton = "none"
    /\ cfrPlayer = CFRPlayer
    /\ history \in {Started(s) : s \in {c \in CurrentStates : c.canCheck /\ c.canFold}}

MethodSpec == MethodInit /\ [][MethodNext]_vars

-----------------------------------------------------------------------------
(* The card-draw loops pass by pass: deal, match and fold are followed only  *)
(* as far as they reset, request and use up cards; history holds the loop     *)
(* that is running.                                                           *)

\* what generate() gives in a pass: index 0 or the highest index not given yet
\* in this hand, so that a pass may find a used card as well as a fresh one
generate ==
    {0, Len(activeCards) - 1 - Len(usedCardsArr)} \cap (0..(Len(activeCards) - 1))

DrawStep(g, frame) == GameBecomes(g) /\ cfrPlayer' = cfrPlayer /\ history' = frame

DrawInit ==
    /\ InitWith({<<ThreeWayTie, TwoWayTie>>})
    /\ activeButton = "none"
    /\ cfrPlayer = CFRPlayer
    /\ history = [operation |-> "returned"]

\* deal() up to the first generatePlayer
CallDeal ==
    /\ history.operation = "returned"
    /\ ~dealDisabled
    /\ playedTimes < MaxHands
    /\ DrawStep([G EXCEPT !.usedCardsArr = <<>>, !.communityCards = <<>>,
                          !.playedTimes = @ + 1, !.gameIncrement = 1,
                          !.roundDisabled = FALSE, !.dealDisabled = TRUE],
                [operation |-> "generatePlayer", iteration |-> 0, playersCards |-> <<>>])

\* one pass of the loop of generatePlayer; with the second card the hand is
\* stored and the next player follows, and after the fourth deal() goes on to
\* its end, where one player left ends the hand
GeneratePlayerPass ==
    /\ history.operation = "generatePlayer"
    /\ \E genNumber \in generate, ended \in BOOLEAN :
           \E d \in {DrawHole([G EXCEPT !.stream = <<genNumber>>], history.playersCards)} :
               IF Len(d.playersCards) < 2
               THEN /\ ~ended
                    /\ DrawStep(d.g, [history EXCEPT !.playersCards = d.playersCards])
               ELSE \E g1 \in {[d.g EXCEPT !.playersHands[history.iteration + 1] =
                                   [k \in 1..2 |-> CardOfTitle(d.playersCards[k])]]} :
                        IF history.iteration < 3
                        THEN /\ ~ended
                             /\ DrawStep(g1, [history EXCEPT !.iteration = @ + 1,
                                                             !.playersCards = <<>>])
                        ELSE DrawStep([g1 EXCEPT !.roundDisabled = ended,
                                                 !.dealDisabled = ~ended],
                                      [operation |-> "returned"])

\* match() up to its buildCommunityCards
CallMatch ==
    /\ history.operation = "returned"
    /\ ~roundDisabled
    /\ \E gameStep \in {gameIncrement + 1} :
           DrawStep([G EXCEPT !.gameIncrement = gameStep,
                              !.communityCards = IF gameStep = 2 THEN <<>> ELSE @],
                    [operation |-> "buildCommunityCards", caller |-> "match",
                     howMany |-> IF gameStep < 4 THEN gameStep + 1 ELSE 5])

\* fold() up to its buildCommunityCards
CallFold ==
    /\ history.operation = "returned"
    /\ ~roundDisabled
    /\ DrawStep(G, [operation |-> "buildCommunityCards", caller |-> "fold",
                    howMany |-> 5])

\* one pass of the loop of buildCommunityCards
BuildCommunityCardsPass ==
    /\ history.operation = "buildCommunityCards"
    /\ Len(communityCards) < history.howMany
    /\ \E genNumber \in generate :
           DrawStep(buildCommunityCards([G EXCEPT !.stream = <<genNumber>>],
                                        history.howMany), history)

\* the loop of buildCommunityCards is left.  fold() ends the hand; match() goes
\* on to the evaluations, one of which may leave a number at
\* communityCards[iteration], and ends the hand at the river or with one
\* player left
BuildCommunityCardsReturns ==
    /\ history.operation = "buildCommunityCards"
    /\ Len(communityCards) >= history.howMany
    /\ \E ended \in BOOLEAN, iteration \in -1..3 :
           /\ (history.caller = "fold" \/ gameIncrement >= 4) => ended
           /\ history.caller = "fold" => iteration = -1
           /\ iteration <= Len(communityCards)
           /\ DrawStep([G EXCEPT !.communityCards =
                               IF iteration = -1 THEN @
                               ELSE IF iteration = Len(@) THEN Append(@, NumberEntry(0))
                               ELSE [@ EXCEPT ![iteration + 1] = NumberEntry(0)],
                                 !.roundDisabled = ended, !.dealDisabled = ~ended],
                       [operation |-> "returned"])

DrawNext ==
    \/ CallDeal
    \/ GeneratePlayerPass
    \/ CallMatch
    \/ CallFold
    \/ BuildCommunityCardsPass
    \/ BuildCommunityCardsReturns

\* a handler that has been called runs on, and a loop that can find a fresh
\* card does find one after finitely many passes
DrawSpec ==
    /\ DrawInit
    /\ [][DrawNext]_vars
    /\ WF_vars(GeneratePlayerPass)
    /\ WF_vars(BuildCommunityCardsPass)
    /\ WF_vars(BuildCommunityCardsReturns)

-----------------------------------------------------------------------------
(* The adviser *)

\* the passes of the train call that has just returned
Passes == {history.passes[i] : i \in 1..Len(history.passes)}

\* C17: in every pass of train, whatever the number of passes and whichever
\* flags of the state are set (at least one is), selectAction returns an
\* action whose flag is set.
C17_SelectedActionIsValid ==
    \A pass \in Passes : isValidAction(history.currentState, pass.action)

\* the getStrategy calls of the operation that has just returned: what
\* regretSum was and what strategy came back
StrategyCalls ==
    {[regretSum |-> pass.regretSum, strategy |-> pass.strategy] : pass \in Passes}
        \cup (IF history.operation = "getStrategy"
               THEN {history.returned[i] : i \in 1..Len(history.returned)}
               ELSE {})

\* regret matching as the specification words it
PositiveRegrets(regrets) == {a \in ActionSet : Less(Zero, regrets[a])}

Matched(regrets) ==
    LET positive == [a \in ActionSet |->
                        IF a \in PositiveRegrets(regrets) THEN regrets[a] ELSE Zero]
        total == SumOver(positive, numActions)
    IN  [a \in ActionSet |->
            IF PositiveRegrets(regrets) = {} THEN Number(1, 5)
            ELSE IF a \in PositiveRegrets(regrets) THEN Over(regrets[a], total)
            ELSE Zero]

\* C18: whatever regretSum is, getStrategy returns a probability
\* distribution over the five actions: the positive regrets divided by their
\* sum when some regret is positive, 1/5 each otherwise; it sums to 1.
C18_StrategyMatchesRegrets ==
    \A call \in StrategyCalls :
        /\ call.strategy = Matched(call.regretSum)
        /\ SumOver(call.strategy, numActions) = One

\* x <= y for finite numbers
AtMost(x, y) == x.kind = "finite" /\ y.kind = "finite" /\ ~Less(y, x)

\* what the passes of a train call returned for action a, added up
RECURSIVE Returned(_, _)
Returned(passes, a) ==
    IF passes = <<>> THEN Zero
    ELSE Plus(Returned(SubSeq(passes, 1, Len(passes) - 1), a),
              passes[Len(passes)].strategy[a])

\* C19: every getStrategy call adds the probability it returns to strategySum:
\* no entry of strategySum ever decreases, whatever is called, and after N
\* getStrategy calls on a new player the entries of strategySum add up to N.
C19_StrategySumGrowsByStrategy ==
    /\ SumOver(cfrPlayer.strategySum, numActions) = Number(history.calls, 1)
    /\ [][/\ \A a \in ActionSet : AtMost(cfrPlayer.strategySum[a], cfrPlayer.strategySum'[a])
          /\ SumOver(cfrPlayer.strategySum', numActions) = Number(history.calls', 1)
          /\ history.operation' = "getStrategy" =>
                 \A a \in ActionSet :
                     cfrPlayer.strategySum'[a] =
                         Plus(cfrPlayer.strategySum[a], history.returned'[1].strategy[a])
          /\ history.operation' = "train" =>
                 \A a \in ActionSet :
                     cfrPlayer.strategySum'[a] =
                         Plus(cfrPlayer.strategySum[a], Returned(history.passes', a))]_vars

\* MaxCalls strategies have been added, not all of them uniform
C19_Witness ==
    /\ history.calls = MaxCalls
    /\ \E a, b \in ActionSet : cfrPlayer.strategySum[a] # cfrPlayer.strategySum[b]
    /\ \A a \in ActionSet : cfrPlayer.strategySum[a].kind = "finite"

\* the average strategies the operation that has just returned gave back
AveragesReturned ==
    IF history.operation = "getAverageStrategy"
    THEN {history.returned[i] : i \in 1..Len(history.returned)}
    ELSE IF history.operation = "recommendAction"
    THEN {history.returned[i].averageStrategy : i \in 1..Len(history.returned)}
    ELSE {}

Uniform(distribution) == \A a \in ActionSet : distribution[a] = Number(1, 5)

TotalStrategySum == SumOver(cfrPlayer.strategySum, numActions)

\* C20: getAverageStrategy always returns a probability distribution adding
\* up to 1, with strategySum[a] / total for each action, and the distribution
\* is the uniform 1/5 in exactly the states where the total of strategySum is
\* zero, which are the states before any getStrategy call.
C20_UniformExactlyAtZero ==
    \A averageStrategy \in AveragesReturned :
        /\ SumOver(averageStrategy, numActions) = One
        /\ TotalStrategySum # Zero =>
               \A a \in ActionSet :
                   averageStrategy[a] = Over(cfrPlayer.strategySum[a], TotalStrategySum)
        /\ Uniform(averageStrategy) <=> TotalStrategySum = Zero
        /\ TotalStrategySum = Zero <=> history.calls = 0

\* C20 as the code has it: getAverageStrategy always returns a probability
\* distribution adding up to 1; the total of strategySum is zero exactly
\* before any getStrategy call, and then every action gets 1/5; otherwise
\* each action gets strategySum[a] / total, which may be 1/5 for all as well.
C20_FallbackExactlyAtZero ==
    \A averageStrategy \in AveragesReturned :
        /\ SumOver(averageStrategy, numActions) = One
        /\ TotalStrategySum = Zero <=> history.calls = 0
        /\ IF TotalStrategySum = Zero THEN Uniform(averageStrategy)
           ELSE \A a \in ActionSet :
                    averageStrategy[a] = Over(cfrPlayer.strategySum[a], TotalStrategySum)

\* a uniform average comes back after getStrategy has been called
C20_Witness ==
    /\ history.operation = "getAverageStrategy"
    /\ history.calls > 0
    /\ \A averageStrategy \in AveragesReturned : Uniform(averageStrategy)

\* a getStrategy call by itself has just been made
StrategyCalled == history.operation' = "getStrategy" /\ history.calls' = history.calls + 1

\* C21: while exactly one action a has a strictly positive regret and regretSum
\* stays as it is, every getStrategy call adds 1 to strategySum[a] and nothing
\* to the others, so the average-strategy probability of a never decreases
\* from call to call, is (k/5 + N) / (k + N) after k uniform calls and N such
\* calls, and tends to 1.
C21_ConcentratedRegretConverges ==
    [][\A a \in ActionSet :
          PositiveRegrets(cfrPlayer.regretSum) = {a} /\ StrategyCalled =>
              /\ cfrPlayer.regretSum' = cfrPlayer.regretSum
              /\ cfrPlayer.strategySum'[a] = Plus(cfrPlayer.strategySum[a], One)
              /\ \A b \in ActionSet \ {a} :
                     cfrPlayer.strategySum'[b] = cfrPlayer.strategySum[b]
              /\ AtMost(getAverageStrategy(cfrPlayer)[a], getAverageStrategy(cfrPlayer')[a])
              /\ (\A b \in ActionSet : cfrPlayer.strategySum[b] = Number(history.calls, 5)) =>
                     getAverageStrategy(cfrPlayer')[a] =
                         Over(Number(history.calls + 5, 5), Number(history.calls + 1, 1))]_vars

\* regretSum after pass i of the train call that has just returned
RegretsAfter(i) ==
    IF i < Len(history.passes) THEN history.passes[i + 1].regretSum ELSE cfrPlayer.regretSum

\* C22: in every pass of train, updateRegrets adds counterfactualRewards[a]
\* minus the reward of the action taken to regretSum[a] for each action a, so
\* the regretSum of the action taken stays as it was, whichever was selected.
C22_TakenActionRegretUnchanged ==
    history.operation = "train" =>
        \A i \in 1..Len(history.passes) :
            LET counterfactualRewards == calculateCounterfactualRewards(history.currentState)
                taken == history.passes[i].action
            IN  /\ \A a \in ActionSet :
                       RegretsAfter(i)[a] =
                           Plus(history.passes[i].regretSum[a],
                                Minus(counterfactualRewards[a], counterfactualRewards[taken]))
                /\ RegretsAfter(i)[taken] = history.passes[i].regretSum[taken]

\* C23: recommendAction returns an action whose average-strategy probability
\* is the highest, and among several actions with that probability the one
\* listed first in check, call, raise, allin, fold; a new player is
\* recommended check.
C23_RecommendsFirstMaximal ==
    history.operation = "recommendAction" =>
        LET recommended == history.returned[1].recommendedAction
            averageStrategy == history.returned[1].averageStrategy
        IN  /\ \A a \in ActionSet : ~Less(averageStrategy[recommended], averageStrategy[a])
            /\ \A a \in ActionSet :
                   averageStrategy[a] = averageStrategy[recommended] =>
                       indexOf(actions, recommended) <= indexOf(actions, a)
            /\ history.calls = 0 => recommended = "check"

\* C24: for every state, every number of remaining players and every
\* improvement factor, 0 included, calculateReward returns negative infinity
\* for an action whose flag is false.
C24_IllegalRewardIsNegativeInfinity ==
    history.operation = "calculateReward" =>
        \A call \in {history.returned[i] : i \in 1..Len(history.returned)} :
            ~isValidAction(history.currentState, call.action) =>
                call.reward = NEGATIVE_INFINITY

\* C25: for every state with canFold true, calculateReward(state, 'fold') is
\* minus playerBet, whatever the hand, the number of remaining players and
\* the number of cards dealt.
C25_FoldRewardIsMinusBet ==
    history.operation = "calculateReward" =>
        \A call \in {history.returned[i] : i \in 1..Len(history.returned)} :
            call.action = "fold" /\ history.currentState.canFold =>
                call.reward = Number(-history.currentState.playerBet, 1)

\* the probability mass of the first i actions of the list
RECURSIVE MassTo(_, _, _)
MassTo(list, strategy, i) ==
    IF i = 0 THEN Zero ELSE Plus(MassTo(list, strategy, i - 1), strategy[list[i]])

\* the first action of the list whose cumulative mass exceeds r, the last
\* action of the list when there is none
FirstExceeding(list, strategy, r) ==
    LET exceeding == {i \in 1..Len(list) : Less(r, MassTo(list, strategy, i))}
    IN  IF exceeding = {} THEN list[Len(list)]
        ELSE list[CHOOSE i \in exceeding : \A j \in exceeding : i <= j]

\* C26: for every strategy and every draw r in [0, 1), selectAction returns
\* the first action in declared order whose cumulative probability mass
\* exceeds r, and the last action of the list when no cumulative mass exceeds
\* r; so do both the method of CFRPlayer and the standalone function.
C26_SelectsFirstExceeding ==
    \A call \in {history.returned[i] : i \in 1..Len(history.returned)} :
        /\ history.operation = "selectAction" =>
               call.action = FirstExceeding(actions, call.strategy, call.r)
        /\ history.operation = "selectAction (standalone)" =>
               call.action = FirstExceeding(standaloneActions, call.strategy, call.r)


\* the player as constructed
Fresh(self) == self = CFRPlayer

\* C29: the two maps of a player change only through the operation responsible
\* for them: a getStrategy call leaves regretSum as it was, an updateRegrets call
\* leaves strategySum as it was, getAverageStrategy, selectAction,
\* calculateCounterfactualRewards, calculateReward and recommendAction leave both
\* as they were, and no call puts a player that has changed back to the maps it
\* was constructed with.
C29_MapsChangeOnlyByTheirOperation ==
    [][/\ history'.operation = "getStrategy" =>
              cfrPlayer'.regretSum = cfrPlayer.regretSum
       /\ history'.operation = "updateRegrets" =>
              cfrPlayer'.strategySum = cfrPlayer.strategySum
       /\ history'.operation \in {"getAverageStrategy", "selectAction",
                                  "calculateCounterfactualRewards", "calculateReward",
                                  "recommendAction"} =>
              cfrPlayer' = cfrPlayer
       /\ Fresh(cfrPlayer') => Fresh(cfrPlayer)]_vars

\* updateRegrets has been called on a player whose strategySum getStrategy had
\* changed, and has changed its regretSum
C29_Witness ==
    /\ history.operation = "updateRegrets"
    /\ cfrPlayer.strategySum # CFRPlayer.strategySum
    /\ cfrPlayer.regretSum # CFRPlayer.regretSum


\* C30: the balance of player 0 is never below zero, whatever deal() and match()
\* calls have been made, as long as no restart offered by resetPlayerMoney has
\* been declined (declining removes the handlers for good).
C30_BalanceNeverNegative == ~handlersRemoved => playerMoney >= 0


\* match() at the turn or the river on a board in which an earlier evaluation
\* has left a number: evaluateHand is handed that entry for player 0
EvaluatesNonCard ==
    /\ gameIncrement >= 2
    /\ gameIncrement' = gameIncrement + 1
    /\ ~DealtOnly(communityCards)

\* C28: evaluateHand given an entry that is not a card fails with an error: the
\* match() that hands it over stops there, so that no category is written, no
\* outcome is logged and the bet that follows the evaluations is not taken.
C28_NonCardEntryFails ==
    [][EvaluatesNonCard =>
           /\ resultList' = resultList
           /\ log' = log
           /\ playerMoney' = playerMoney
           /\ thePot' = thePot]_vars


\* the cards of the deck that are not in usedCardsArr
Unused ==
    Cardinality({n \in 1..Len(activeCards) :
                    indexOf(usedCardsArr, activeCards[n].title) = -1})

\* the cards the running loop still has to find
Requested ==
    IF history.operation = "generatePlayer" THEN 2 - Len(history.playersCards)
    ELSE IF history.operation = "buildCommunityCards"
              /\ Len(communityCards) < history.howMany
    THEN history.howMany - Len(communityCards)
    ELSE 0

\* C27: whenever a loop of generatePlayer or buildCommunityCards is running,
\* at least as many cards of the deck are unused as the loop still has to
\* find, and every call of deal, match or fold that has started a loop returns.
C27_DrawLoopsTerminate ==
    /\ [](Unused >= Requested)
    /\ [](history.operation # "returned" => <>(history.operation = "returned"))

\* the second hand has been played to the river: all thirteen cards were found
C27_Witness ==
    /\ history.operation = "returned"
    /\ playedTimes = 2
    /\ gameIncrement = 4
    /\ Len(usedCardsArr) = 13


\* the youWin calls of this hand
Wins == {k \in 1..Len(log) : log[k].call = "youWin"}

\* C31: between one deal() and the next youWin runs at most once, so that the
\* pot is added to playerMoney at most one time in a hand.
C31_PotAwardedOnce == Cardinality(Wins) <= 1


\* the pot as the last youWin or youLose call of this hand left it
PotAtOutcome == IF Outcome.call = "youWin" THEN Outcome.amount ELSE Outcome.potBefore

\* C32: the bet of player 0 is taken before any payout of the same match():
\* once youWin or youLose has run in a hand, the pot is what that call left and
\* no step before the next deal() changes thePot or playerMoney.
C32_BetBeforePayout ==
    [][/\ (log' # <<>>) => thePot' = PotAtOutcome'
       /\ (log # <<>> /\ playedTimes' = playedTimes) =>
              (thePot' = thePot /\ playerMoney' = playerMoney)]_vars


\* the last outcome of this hand is a split pot
SplitDeclared == log # <<>> /\ Outcome.call = "youWin" /\ Outcome.type = "split"

\* C33: a split pot is declared at the showdown only if player 0 and at least
\* one other player of the showdown hold hands equal in category and tiebreak
\* key, and no player of the showdown holds a better hand than player 0.
C33_SplitOnlyOnEqualHands ==
    (ShownDown /\ SplitDeclared) =>
        /\ 0 \in BestPlayers
        /\ Cardinality(BestPlayers) >= 2


\* C34: a hand is decided by the river: once the third match() of a hand has
\* brought gameIncrement to 4, youWin or youLose has been called in the hand.
C34_DecidedByTheRiver == gameIncrement = 4 => log # <<>>

\* a river reached with two or more players, and decided
C34_Witness == gameIncrement = 4 /\ Len(activePlayers) >= 2 /\ log # <<>>


\* C35: whatever has been trained, no entry of regretSum is NaN or Infinity and
\* the regret of an action the state allows is finite.
C35_RegretsWellDefined ==
    \A a \in ActionSet :
        /\ cfrPlayer.regretSum[a] # NaN
        /\ cfrPlayer.regretSum[a] # Infinity
        /\ isValidAction(history.currentState, a) => cfrPlayer.regretSum[a].kind = "finite"


\* activePlayers lists ids of 0..3 in increasing order, player 0 among them,
\* and the players outside it are marked with -1
ActivePlayersInOrder ==
    /\ \A k \in 1..Len(activePlayers) : activePlayers[k] \in 0..3
    /\ \A k \in 1..(Len(activePlayers) - 1) : activePlayers[k] < activePlayers[k + 1]
    /\ 0 \in Active
    /\ \A p \in (0..3) \ Active : resultList[p + 1] = -1 /\ compareCards[p + 1] = -1

\* C36: activePlayers is always a strictly increasing list of ids from 0..3
\* that contains player 0, every player outside it has resultList and
\* compareCards -1, and within a hand the list only loses players.
C36_ActivePlayersShrink ==
    /\ []ActivePlayersInOrder
    /\ [][playedTimes' = playedTimes =>
              {activePlayers'[k] : k \in 1..Len(activePlayers')} \subseteq Active]_vars

\* a hand in which two players have folded is at the turn
C36_Witness == gameIncrement = 3 /\ Len(activePlayers) = 2 /\ ActivePlayersInOrder


\* the rank indexes of the hole cards of player p
HoleRanks(p) == {Rank(c) : c \in Hole(p)}

\* what a hand starts from once deal() has returned
FreshHand ==
    /\ usedCardsArr = [k \in 1..8 |-> LET c == playersHands[((k - 1) \div 2) + 1][((k - 1) % 2) + 1]
                                      IN  Title(c.value, c.suit)]
    /\ communityCards = <<>>
    /\ Active \subseteq 0..3
    /\ gameIncrement = 1
    /\ topHand = null
    /\ playerStraightHighCard = <<0, 0, 0, 0>>
    /\ Len(bestHoleCards) = 4
    /\ \A p \in 0..3 :
           /\ {plyrPair[p + 1][k] : k \in 1..Len(plyrPair[p + 1])} \subseteq HoleRanks(p)
           /\ {bestHoleCards[p + 1][k] : k \in 1..Len(bestHoleCards[p + 1])} = HoleRanks(p)

====
